---- MODULE Spec2Model ----
(***************************************************************************)
(* A model of copper's Verifier (the endpoint list, the error ledger and   *)
(* the options it is built with) and of the endpoints coverage table.      *)
(* Strings are sequences of one-character strings, so that the path        *)
(* matcher, strconv.Itoa and the base path are computed and not assumed.   *)
(***************************************************************************)
EXTENDS Integers, Sequences, FiniteSets, TLC

VARIABLES
    doc,        \* Verifier.spec: the documented (path, method, code) triples
    conf,       \* Verifier.conf: the options the verifier was built with
    endpoints,  \* Verifier.endpoints: the slice loadPaths builds
    errors,     \* Verifier.errors: the ledger
    reqCounter, \* Verifier.reqCounter: the sequence number of the logged exchanges
    paths,      \* endpoints.paths: the coverage table (path -> method -> code -> bool)
    mu,         \* Verifier.mu: 0, or the goroutine that holds the lock
    goroutines, \* the goroutines that call the verifier concurrently, and where each is
    serial,     \* the exchanges of the Record calls, in the order they took the lock
    log,        \* the lines given to the request logger, in the order of the Logf calls
    lastOp,     \* the call that returned last
    ret         \* what that call returned (or handed to t.Error)

vars == <<doc, conf, endpoints, errors, reqCounter, paths, mu, goroutines, serial, log, lastOp, ret>>

\* The variables only concurrent calls change.
concVars == <<mu, goroutines, serial>>

----
\* Bounds of the model.

\* The longest ledger of the sequential specifications: Record is not fired
\* when it would exceed it.
MaxErrors == 2

\* The deepest nesting of wrapped errors: joinError and fmt.Errorf are not
\* applied to an error that has reached it.
MaxDepth == 3

\* The number of goroutines that call the verifier concurrently, each once.
Goroutines == 3

\* The number of goroutines that call Record of a verifier with a request
\* logger concurrently, each once.
LogGoroutines == 2

\* The largest sequence number: with a request logger, Record is not fired
\* once reqCounter has reached it.
MaxRequests == 3

\* The most segments of a requested path below its prefix.
MaxSegments == 3

\* The most characters of an argument of WithBasePath.
MaxBaseLen == 4

\* The most entries of the ledger where its backing array is followed.
MaxLedger == 4

----
\* Strings.

Nil == [kind |-> "nil"]

SlashT7 == <<"/", "t", "/", "7">>
SlashTX == <<"/", "t", "/", "x">>
SlashQ == <<"/", "q">>

TplThingId == <<"/", "t", "/", "{", "i", "}">>
TplThingX == <<"/", "t", "/", "x">>

C200 == <<"2", "0", "0">>
C404 == <<"4", "0", "4">>
C500 == <<"5", "0", "0">>

Digits == <<"0", "1", "2", "3", "4", "5", "6", "7", "8", "9">>

RECURSIVE Itoa(_)
Itoa(n) ==
    IF n < 10 THEN <<Digits[n + 1]>>
    ELSE Itoa(n \div 10) \o <<Digits[(n % 10) + 1]>>

StatusInternalServerError == 500

supportedMethods == <<"GET", "HEAD", "PUT", "POST", "DELETE", "PATCH", "OPTIONS">>

Range(s) == {s[i] : i \in 1..Len(s)}

----
\* The route matcher: loadPath's regular expression.

\* The least index i >= from with s[i] = c, or 0 when there is none.
IndexFrom(s, c, from) ==
    LET hits == {i \in from..Len(s) : s[i] = c}
    IN  IF hits = {} THEN 0 ELSE CHOOSE i \in hits : \A j \in hits : i <= j

Lit(c) == [kind |-> "lit", val |-> <<c>>]
Grp(name) == [kind |-> "grp", val |-> name]

\* re.ReplaceAllString(path, "(?P<$1>[^/]+)") for re = "{([^}]*)}", as the
\* token list of the pattern it yields: every leftmost "{...}" becomes a named
\* group matching [^/]+, every other character stays a literal of the pattern.
RECURSIVE ReplacePlaceholders(_)
ReplacePlaceholders(path) ==
    IF path = <<>> THEN <<>>
    ELSE IF path[1] = "{" /\ IndexFrom(path, "}", 2) # 0
    THEN LET close == IndexFrom(path, "}", 2)
         IN  <<Grp(SubSeq(path, 2, close - 1))>>
                 \o ReplacePlaceholders(SubSeq(path, close + 1, Len(path)))
    ELSE <<Lit(path[1])>> \o ReplacePlaceholders(Tail(path))

\* fmt.Sprintf("^%v%v$", basePath, replaced): the base path is copied into
\* the pattern unescaped, so its characters are pattern literals too.
CompileUri(basePath, path) ==
    [i \in 1..Len(basePath) |-> Lit(basePath[i])] \o ReplacePlaceholders(path)

\* A literal of the pattern against one character: "." is the pattern's
\* any-character, every other character of the model's alphabet matches itself.
LitMatches(c, ch) == c = "." \/ c = ch

\* uriRe.MatchString(s) for the anchored pattern ^tokens$.
RECURSIVE MatchString(_, _)
MatchString(tokens, s) ==
    IF tokens = <<>> THEN s = <<>>
    ELSE IF tokens[1].kind = "lit"
    THEN /\ s # <<>>
         /\ LitMatches(tokens[1].val[1], s[1])
         /\ MatchString(Tail(tokens), Tail(s))
    ELSE \E k \in 1..Len(s) :
            /\ \A j \in 1..k : s[j] # "/"
            /\ MatchString(Tail(tokens), SubSeq(s, k + 1, Len(s)))

----
\* The specification document and the options.

Triple(p, m, c) == [path |-> p, method |-> m, code |-> c]

\* The documents of the model. /t/{i} and /t/x overlap on the path /t/x;
\* TRACE is a method outside supportedMethods.
DocDelete == {Triple(TplThingId, "DELETE", C200)}
DocServerError == {Triple(TplThingId, "GET", C200), Triple(TplThingId, "GET", C500)}
DocOnly500 == {Triple(TplThingId, "GET", C500)}
DocOverlap == {Triple(TplThingId, "GET", C200), Triple(TplThingX, "GET", C200)}
DocTrace == {Triple(TplThingId, "GET", C200), Triple(TplThingId, "TRACE", C200)}
DocMethods == {Triple(TplThingX, "GET", C200), Triple(TplThingX, "DELETE", C200)}

Docs == {DocDelete, DocServerError, DocOnly500, DocOverlap, DocTrace, DocMethods}

\* spec.Paths.Map(): the documented paths.
DocPaths(d) == {t.path : t \in d}

\* PathItem.GetOperation(method) # nil.
HasOperation(d, p, m) == \E t \in d : t.path = p /\ t.method = m

\* op.Responses.Map(): the documented codes of an operation.
ResponseCodes(d, p, m) == {t.code : t \in {u \in d : u.path = p /\ u.method = m}}

\* The base paths WithBasePath leaves in config.basePath ("" when it is not used).
BasePaths == {<<>>}

\* A Trim that removes the leading slashes only.
RECURSIVE TrimLeft(_)
TrimLeft(path) ==
    IF path = <<>> THEN <<>>
    ELSE IF path[1] = "/" THEN TrimLeft(Tail(path))
    ELSE path

\* strings.Trim(path, "/"): the path without its leading and trailing slashes.
RECURSIVE Trim(_)
Trim(path) ==
    IF path = <<>> THEN <<>>
    ELSE IF path[1] = "/" THEN Trim(Tail(path))
    ELSE IF path[Len(path)] = "/" THEN Trim(SubSeq(path, 1, Len(path) - 1))
    ELSE path

\* WithBasePath(path): what it stores in config.basePath.
WithBasePath(path) == <<"/">> \o Trim(path)

\* getConfig(opts...) without options. requestLogger is TRUE when
\* WithRequestLogging has set a logger and FALSE when it is nil.
DefaultConfig ==
    [ basePath |-> <<>>,
      checkInternalServerErrors |-> FALSE,
      checkRequest |-> FALSE,
      requestLogger |-> FALSE,
      disableFullCoverage |-> FALSE,
      ignoreUnsupportedBodyFormats |-> FALSE ]

\* getConfig(opts...): every combination of the options loadPath, the
\* unmatched branch of Record and CurrentErrors read, with and without
\* request validation.
Configs ==
    [ basePath : BasePaths,
      checkInternalServerErrors : BOOLEAN,
      checkRequest : BOOLEAN,
      requestLogger : {FALSE},
      disableFullCoverage : BOOLEAN,
      ignoreUnsupportedBodyFormats : {FALSE} ]

\* The options with and without WithRequestLogging and WithRequestValidation.
LogConfigs ==
    {[DefaultConfig EXCEPT !.requestLogger = l, !.checkRequest = r] : l \in BOOLEAN, r \in BOOLEAN}

\* The orders in which a range over a Go map may yield the elements of S.
Orders(S) == {s \in [1..Cardinality(S) -> S] : Range(s) = S}

\* One order of the response codes for every operation of the document.
Operations(d) == {<<t.path, t.method>> : t \in d}
ResponseOrders(d) ==
    {f \in [Operations(d) -> UNION {Orders(ResponseCodes(d, o[1], o[2])) : o \in Operations(d)}] :
        \A o \in Operations(d) : f[o] \in Orders(ResponseCodes(d, o[1], o[2]))}

----
\* Verifier.loadPath and Verifier.loadPaths.

\* loadPath without the "500" test.
RECURSIVE LoadResponsesKeep500(_, _, _, _)
LoadResponsesKeep500(c, path, method, codes) ==
    IF codes = <<>> THEN <<>>
    ELSE << [ checked |-> FALSE,
              method |-> method,
              response |-> codes[1],
              uriRe |-> CompileUri(c.basePath, path),
              path |-> c.basePath \o path,
              route |-> <<path, method>> ] >>
            \o LoadResponsesKeep500(c, path, method, Tail(codes))

\* A loadPath that skips "500" whatever the option.
RECURSIVE LoadResponsesNever500(_, _, _, _)
LoadResponsesNever500(c, path, method, codes) ==
    IF codes = <<>> THEN <<>>
    ELSE IF codes[1] = C500
    THEN LoadResponsesNever500(c, path, method, Tail(codes))
    ELSE << [ checked |-> FALSE,
              method |-> method,
              response |-> codes[1],
              uriRe |-> CompileUri(c.basePath, path),
              path |-> c.basePath \o path,
              route |-> <<path, method>> ] >>
            \o LoadResponsesNever500(c, path, method, Tail(codes))

\* The endpoints loadPath appends for one operation, its codes in the order
\* the map yields them; "500" is skipped unless checkInternalServerErrors.
RECURSIVE LoadResponses(_, _, _, _)
LoadResponses(c, path, method, codes) ==
    IF codes = <<>> THEN <<>>
    ELSE IF ~c.checkInternalServerErrors /\ codes[1] = C500
    THEN LoadResponses(c, path, method, Tail(codes))
    ELSE << [ checked |-> FALSE,
              method |-> method,
              response |-> codes[1],
              uriRe |-> CompileUri(c.basePath, path),
              path |-> c.basePath \o path,
              route |-> <<path, method>> ] >>
            \o LoadResponses(c, path, method, Tail(codes))

\* loadPath: the supported methods in their fixed order, those without an
\* operation skipped.
RECURSIVE LoadMethods(_, _, _, _, _)
LoadMethods(d, c, path, methods, respOrder) ==
    IF methods = <<>> THEN <<>>
    ELSE (IF HasOperation(d, path, methods[1])
          THEN LoadResponses(c, path, methods[1], respOrder[<<path, methods[1]>>])
          ELSE <<>>)
         \o LoadMethods(d, c, path, Tail(methods), respOrder)

LoadPath(d, c, path, respOrder) == LoadMethods(d, c, path, supportedMethods, respOrder)

\* A loadPaths that stops after the first path.
LoadPathsFirstOnly(d, c, pathOrder, respOrder) ==
    IF pathOrder = <<>> THEN <<>> ELSE LoadPath(d, c, pathOrder[1], respOrder)

\* loadPaths: loadPath for every path, in the order the map yields them.
RECURSIVE LoadPaths(_, _, _, _)
LoadPaths(d, c, pathOrder, respOrder) ==
    IF pathOrder = <<>> THEN <<>>
    ELSE LoadPath(d, c, pathOrder[1], respOrder)
            \o LoadPaths(d, c, Tail(pathOrder), respOrder)

----
\* Errors (error.go) and the validators' verdicts.

ErrNotChecked == "not checked"
ErrNotPartOfSpec == "not part of spec"
ErrResponseInvalid == "response invalid"
ErrRequestInvalid == "request invalid"

joinError(sentinel, err) == [kind |-> "VerificationError", sentinel |-> sentinel, err |-> err]

\* fmt.Errorf: the formatted operands, and the error a %w operand wraps.
Errorf(operands, wrapped) == [kind |-> "Errorf", msg |-> operands, wraps |-> wrapped]

\* A SentinelError as an error value, and the value errors.New returns: a
\* pointer, equal to itself only, so two calls give two values.
SentinelValue(s) == [kind |-> "SentinelError", msg |-> s]
New(id) == [kind |-> "errorString", id |-> id]

\* An Unwrap of VerificationError that yields the wrapped error alone.
UnwrapErrOnly(e) ==
    CASE e.kind = "VerificationError" -> <<e.err>>
      [] e.kind = "Errorf" -> IF e.wraps = Nil THEN <<>> ELSE <<e.wraps>>
      [] e.kind = "joinError" -> e.errs
      [] OTHER -> <<>>

\* The errors errors.Is descends into: VerificationError.Unwrap() yields
\* []error{v.err, v.sentinel}, the error of fmt.Errorf its %w operand, the
\* error of errors.Join its operands, every other error of the model none.
Unwrap(e) ==
    CASE e.kind = "VerificationError" -> <<e.err, SentinelValue(e.sentinel)>>
      [] e.kind = "Errorf" -> IF e.wraps = Nil THEN <<>> ELSE <<e.wraps>>
      [] e.kind = "joinError" -> e.errs
      [] OTHER -> <<>>

\* errors.Is(err, target) for a non-nil target: err equals target, or some
\* error of its Unwrap does, depth first.
RECURSIVE Is(_, _)
Is(err, target) ==
    /\ err # Nil
    /\ \/ err = target
       \/ \E i \in 1..Len(Unwrap(err)) : Is(Unwrap(err)[i], target)

\* The number of errors wrapped one in another.
RECURSIVE Depth(_)
Depth(e) ==
    CASE e.kind = "VerificationError" -> 1 + Depth(e.err)
      [] e.kind = "Errorf" -> IF e.wraps = Nil THEN 1 ELSE 1 + Depth(e.wraps)
      [] OTHER -> 0

\* What openapi3filter.ValidateRequest and ValidateResponse may return: nil,
\* a schema error, or (ValidateResponse) a ParseError of some Kind.
RequestError == [kind |-> "RequestError"]
ResponseError == [kind |-> "ResponseError"]
ParseError(k) == [kind |-> "ParseError", Kind |-> k]
KindUnsupportedFormat == "KindUnsupportedFormat"
KindInvalidFormat == "KindInvalidFormat"

RequestVerdicts == {Nil, RequestError}
ResponseVerdicts ==
    {Nil, ResponseError, ParseError(KindUnsupportedFormat), ParseError(KindInvalidFormat)}

\* The exchanges Record is called with: the request's method and path, the
\* response's status, and what the two validators say of it. The requests
\* are: one only /t/{i} matches, one both templates match, one with status
\* 500, one with another method, and two to a path no template matches.
Request(m, p, st) == [method |-> m, path |-> p, status |-> st]
Requests ==
    { Request("GET", SlashT7, 200), Request("GET", SlashTX, 200),
      Request("GET", SlashT7, 500), Request("DELETE", SlashTX, 200),
      Request("GET", SlashQ, 200), Request("GET", SlashQ, 500) }

\* The response bodies, as sequences of bytes.
Bodies == {<<>>, <<"a", "b">>}
WholeBody == <<"a", "b">>

\* body is what res.Body yields; hasBody is false for a response built
\* without a Body (res.Body == nil); read is the number of bytes
\* ValidateResponse reads of the body through the TeeReader (for a nil Body:
\* 1 when it calls Read at all). Here the body is read whole.
Exchanges ==
    { [method |-> r.method, path |-> r.path, status |-> r.status,
       requestErr |-> q, responseErr |-> p,
       body |-> WholeBody, hasBody |-> TRUE, read |-> Len(WholeBody),
       dumps |-> <<TRUE, TRUE>>] :
        r \in Requests, q \in RequestVerdicts, p \in ResponseVerdicts }

\* Two requests with every body and every number of bytes ValidateResponse
\* may have read of it (none, a proper prefix, or all), and with no Body.
BodyRequests ==
    {e \in Exchanges : /\ e.method = "DELETE" \/ e.path = SlashQ
                       /\ e.status = 200
                       /\ e.requestErr = Nil}
BodyExchanges ==
    UNION {{[ex EXCEPT !.body = b, !.read = n] : n \in 0..Len(b)} :
            ex \in BodyRequests, b \in Bodies}
    \cup {[ex EXCEPT !.body = <<>>, !.hasBody = FALSE, !.read = n] :
            ex \in BodyRequests, n \in {0, 1}}

\* The exchanges whose response is valid or fails its schema.
SchemaExchanges == {ex \in Exchanges : ex.responseErr \in {Nil, ResponseError}}

----
\* Verifier.Record.

\* The loop of Record without the comparison of the status.
EndpointMatchesAnyStatus(e, ex) ==
    /\ e.method = ex.method
    /\ MatchString(e.uriRe, ex.path)

\* The loop of Record: the conditions under which endpoint e takes the exchange.
EndpointMatches(e, ex) ==
    /\ e.method = ex.method
    /\ e.response = Itoa(ex.status)
    /\ MatchString(e.uriRe, ex.path)

\* The index of the first endpoint of the slice that takes the exchange, or 0.
FirstMatch(eps, ex) ==
    LET hits == {i \in 1..Len(eps) : EndpointMatches(eps[i], ex)}
    IN  IF hits = {} THEN 0 ELSE CHOOSE i \in hits : \A j \in hits : i <= j

\* A test that takes every ParseError for an unsupported format.
IsAnyParseError(err) == err.kind = "ParseError"

\* errors.As(responseErr, &parseErr) && parseErr.Kind == KindUnsupportedFormat
IsUnsupportedFormat(err) == err.kind = "ParseError" /\ err.Kind = KindUnsupportedFormat

\* A Record that validates the request whatever the option.
RequestErrorsAlwaysChecked(c, ex) ==
    IF ex.requestErr # Nil
    THEN <<joinError(ErrRequestInvalid,
                     Errorf(<<ex.method, ex.path>>, ex.requestErr))>>
    ELSE <<>>

\* A Record that validates the request only without a request logger.
RequestErrorsUnlessLogged(c, ex) ==
    IF c.checkRequest /\ ~c.requestLogger /\ ex.requestErr # Nil
    THEN <<joinError(ErrRequestInvalid,
                     Errorf(<<ex.method, ex.path>>, ex.requestErr))>>
    ELSE <<>>

\* after ValidateResponse, for an exchange taken by an endpoint.
RequestErrors(c, ex) ==
    IF c.checkRequest /\ ex.requestErr # Nil
    THEN <<joinError(ErrRequestInvalid,
                     Errorf(<<ex.method, ex.path>>, ex.requestErr))>>
    ELSE <<>>

ResponseErrors(c, ex) ==
    IF ex.responseErr = Nil THEN <<>>
    ELSE IF c.ignoreUnsupportedBodyFormats /\ IsUnsupportedFormat(ex.responseErr)
    THEN <<>>
    ELSE <<joinError(ErrResponseInvalid,
                     Errorf(<<ex.method, ex.path, Itoa(ex.status)>>, ex.responseErr))>>

\* A Record that returns after a rejected request.
MatchedErrorsStopAtRequest(c, ex) ==
    IF RequestErrors(c, ex) # <<>> THEN RequestErrors(c, ex) ELSE ResponseErrors(c, ex)

\* The entries Record appends for an exchange taken by an endpoint.
MatchedErrors(c, ex) == RequestErrors(c, ex) \o ResponseErrors(c, ex)

\* An unmatched branch that appends nothing.
UnmatchedErrorsNever(c, ex) == <<>>

\* The unmatched branch without the status 500 test.
UnmatchedErrorsAlways(c, ex) ==
    <<joinError(ErrNotPartOfSpec, Errorf(<<ex.method, ex.path, Itoa(ex.status)>>, Nil))>>

\* The entries Record appends for an exchange no endpoint takes.
UnmatchedErrors(c, ex) ==
    IF c.checkInternalServerErrors \/ ex.status # StatusInternalServerError
    THEN <<joinError(ErrNotPartOfSpec,
                     Errorf(<<ex.method, ex.path, Itoa(ex.status)>>, Nil))>>
    ELSE <<>>

\* A flag that is flipped instead of set.
SetCheckedFlip(eps, i) == [eps EXCEPT ![i].checked = ~eps[i].checked]

\* A Record that clears the flags of the other endpoints.
SetCheckedOnly(eps, i) == [k \in 1..Len(eps) |-> [eps[k] EXCEPT !.checked = (k = i)]]

\* end.checked = true
SetChecked(eps, i) == [eps EXCEPT ![i].checked = TRUE]

\* The panic of a nil pointer dereference.
Panic == [kind |-> "panic"]

\* ValidateResponse reads from io.TeeReader(res.Body, &bodyBytes): with a nil
\* res.Body the first Read dereferences nil and Record panics, after the
\* request was validated and before the endpoint is set to checked.
Panics(eps, ex) == FirstMatch(eps, ex) # 0 /\ ~ex.hasBody /\ ex.read > 0

\* A Record that sets the flag only for a response the validator accepts.
RecordEndpointsOnlyValid(eps, ex) ==
    IF FirstMatch(eps, ex) = 0 \/ Panics(eps, ex) \/ ex.responseErr # Nil
    THEN eps
    ELSE SetChecked(eps, FirstMatch(eps, ex))

\* A Record whose loop goes on after a match and sets every endpoint that
\* takes the exchange.
RecordEndpointsEveryMatch(eps, ex) ==
    IF Panics(eps, ex) THEN eps
    ELSE [i \in 1..Len(eps) |->
            IF EndpointMatches(eps[i], ex) THEN [eps[i] EXCEPT !.checked = TRUE] ELSE eps[i]]

\* What Record leaves in v.endpoints and in v.errors.
RecordEndpoints(eps, ex) ==
    LET i == FirstMatch(eps, ex)
    IN  IF i = 0 \/ Panics(eps, ex) THEN eps ELSE SetChecked(eps, i)

\* A Record that assigns its entries to v.errors instead of appending them.
RecordErrorsAssigned(c, eps, errs, ex) ==
    IF FirstMatch(eps, ex) = 0 THEN UnmatchedErrors(c, ex)
    ELSE IF Panics(eps, ex) THEN RequestErrors(c, ex)
    ELSE MatchedErrors(c, ex)

RecordErrors(c, eps, errs, ex) ==
    errs \o (IF FirstMatch(eps, ex) = 0 THEN UnmatchedErrors(c, ex)
             ELSE IF Panics(eps, ex) THEN RequestErrors(c, ex)
             ELSE MatchedErrors(c, ex))

\* What res.Body yields after Record: for an exchange an endpoint takes, the
\* TeeReader has copied the bytes ValidateResponse read into bodyBytes, and
\* res.Body is replaced by bodyBytes when that is not empty; otherwise the
\* body is not touched. (The request log replaces the body by a copy of it.)
BodyAfter(eps, ex) ==
    IF ex.hasBody /\ FirstMatch(eps, ex) # 0 /\ ex.read > 0
    THEN SubSeq(ex.body, 1, ex.read)
    ELSE ex.body

\* What Record hands to its caller: it has no result, and returns normally
\* unless it panics.
RecordResult(c, eps, ex) == IF Panics(eps, ex) THEN Panic ELSE Nil

\* What the caller of Record has when it returns: nil or the panic, and the
\* response with its body, beside the body the response arrived with.
RecordReturn(c, eps, ex) ==
    [err |-> RecordResult(c, eps, ex), body |-> BodyAfter(eps, ex), original |-> ex.body]

\* v.reqCounter.Add(1), when a request logger is set.
RecordCounter(c, n) == IF c.requestLogger THEN n + 1 ELSE n

\* The Logf calls of Record with the sequence number count: "REQUEST  %04d"
\* when DumpRequestOut returned no error, then "RESPONSE %04d" when
\* DumpResponse returned none. dumps tells which of the two dumps succeed.
ResponseLineNextCount(count, ex) ==
    IF ex.dumps[2] THEN <<[line |-> "RESPONSE", count |-> count + 1]>> ELSE <<>>
RequestLine(count, ex) ==
    IF ex.dumps[1] THEN <<[line |-> "REQUEST", count |-> count]>> ELSE <<>>
ResponseLine(count, ex) ==
    IF ex.dumps[2] THEN <<[line |-> "RESPONSE", count |-> count]>> ELSE <<>>
RecordLog(c, count, ex) ==
    IF c.requestLogger THEN RequestLine(count, ex) \o ResponseLine(count, ex) ELSE <<>>

\* Record is fired while the ledger is short of MaxErrors entries and the
\* call keeps it within MaxErrors, and while the counter is short of
\* MaxRequests.
Record(ex) ==
    /\ Len(errors) < MaxErrors
    /\ reqCounter < MaxRequests
    /\ Len(RecordErrors(conf, endpoints, errors, ex)) <= MaxErrors
    /\ reqCounter' = RecordCounter(conf, reqCounter)
    /\ endpoints' = RecordEndpoints(endpoints, ex)
    /\ errors' = RecordErrors(conf, endpoints, errors, ex)
    /\ lastOp' = "Record"
    /\ ret' = RecordReturn(conf, endpoints, ex)
    /\ log' = log \o RecordLog(conf, RecordCounter(conf, reqCounter), ex)
    /\ UNCHANGED <<doc, conf, paths>>
    /\ UNCHANGED concVars

----
\* Verifier.CurrentErrors, CurrentError, Verify and Reset.

\* The loop of CurrentErrors: one ErrNotChecked for every endpoint of the
\* slice that is not checked, in the order of the slice.
RECURSIVE NotCheckedErrors(_)
NotCheckedErrors(eps) ==
    IF eps = <<>> THEN <<>>
    ELSE (IF ~eps[1].checked
          THEN <<joinError(ErrNotChecked,
                           Errorf(<<eps[1].method, eps[1].path, eps[1].response>>, Nil))>>
          ELSE <<>>)
         \o NotCheckedErrors(Tail(eps))

\* CurrentErrors without the disableFullCoverage test.
CurrentErrorsAlwaysUnchecked(c, eps, errs) == errs \o NotCheckedErrors(eps)

CurrentErrors(c, eps, errs) ==
    errs \o (IF ~c.disableFullCoverage THEN NotCheckedErrors(eps) ELSE <<>>)

\* A join that yields an error for no operands too.
JoinNeverNil(errs) == [kind |-> "joinError", errs |-> SelectSeq(errs, LAMBDA e : e # Nil)]

\* A join that keeps its first operand alone.
JoinFirstOnly(errs) ==
    IF SelectSeq(errs, LAMBDA e : e # Nil) = <<>> THEN Nil
    ELSE [kind |-> "joinError", errs |-> <<SelectSeq(errs, LAMBDA e : e # Nil)[1]>>]

\* errors.Join: nil when no operand is non-nil, else one error holding the
\* non-nil operands in order.
SelectNonNil(errs) == SelectSeq(errs, LAMBDA e : e # Nil)
Join(errs) ==
    IF SelectNonNil(errs) = <<>> THEN Nil
    ELSE [kind |-> "joinError", errs |-> SelectNonNil(errs)]

CurrentError(c, eps, errs) == Join(CurrentErrors(c, eps, errs))

\* A Verify that calls t.Error once for every current error.
VerifyReportsEach(c, eps, errs) == errs \o (IF ~c.disableFullCoverage THEN NotCheckedErrors(eps) ELSE <<>>)

\* Verify: the arguments of the calls of t.Error it makes.
VerifyReports(c, eps, errs) ==
    IF CurrentError(c, eps, errs) # Nil THEN <<CurrentError(c, eps, errs)>> ELSE <<>>

CurrentErrorsCall ==
    /\ lastOp' = "CurrentErrors"
    /\ ret' = [list |-> CurrentErrors(conf, endpoints, errors)]
    /\ UNCHANGED <<log, doc, conf, endpoints, errors, reqCounter, paths>>
    /\ UNCHANGED concVars

CurrentErrorCall ==
    /\ lastOp' = "CurrentError"
    /\ ret' = CurrentError(conf, endpoints, errors)
    /\ UNCHANGED <<log, doc, conf, endpoints, errors, reqCounter, paths>>
    /\ UNCHANGED concVars

VerifyCall ==
    /\ lastOp' = "Verify"
    /\ ret' = [list |-> VerifyReports(conf, endpoints, errors)]
    /\ UNCHANGED <<log, doc, conf, endpoints, errors, reqCounter, paths>>
    /\ UNCHANGED concVars

\* Reset, as the specification describes it: the ledger is cleared and the
\* endpoints are loaded again from the document and the options.
ResetEndpoints(d, c, pathOrder, respOrder) == LoadPaths(d, c, pathOrder, respOrder)
ResetErrors == <<>>

Reset ==
    /\ \E pathOrder \in Orders(DocPaths(doc)), respOrder \in ResponseOrders(doc) :
            endpoints' = ResetEndpoints(doc, conf, pathOrder, respOrder)
    /\ errors' = ResetErrors
    /\ lastOp' = "Reset"
    /\ ret' = Nil
    /\ UNCHANGED <<log, doc, conf, reqCounter, paths>>
    /\ UNCHANGED concVars

----
\* The coverage table (endpoints): newEndpoints, loadPath, responseMap,
\* IsChecked, Unchecked and MarkChecked.

\* strings.ToUpper on the method names the model uses.
ToUpper(m) ==
    CASE m = "get" -> "GET"
      [] m = "delete" -> "DELETE"
      [] m = "trace" -> "TRACE"
      [] OTHER -> m

\* endpoints.loadPath for every path: every operation of the path item gets a
\* method entry, every response code but a skipped "500" a false flag.
TableCodes(d, check500, p, m) ==
    {c \in ResponseCodes(d, p, m) : check500 \/ c # C500}

TableMethods(d, p) == {ToUpper(t.method) : t \in {u \in d : u.path = p}}

newEndpoints(d, check500) ==
    [p \in DocPaths(d) |->
        [m \in TableMethods(d, p) |->
            [c \in UNION {TableCodes(d, check500, p, t.method) :
                            t \in {u \in d : u.path = p /\ ToUpper(u.method) = m}} |-> FALSE]]]

\* responseMap: the code -> bool map of (path, method); HasResponseMap is
\* false where the code returns nil.
HasResponseMap(tbl, path, method) ==
    path \in DOMAIN tbl /\ ToUpper(method) \in DOMAIN tbl[path]
responseMap(tbl, path, method) == tbl[path][ToUpper(method)]

\* IsChecked: r[resCode], false for a nil map and for a missing key.
IsChecked(tbl, path, method, resCode) ==
    /\ HasResponseMap(tbl, path, method)
    /\ resCode \in DOMAIN responseMap(tbl, path, method)
    /\ responseMap(tbl, path, method)[resCode]

\* The three nested loops of Unchecked: every coordinate of the table.
TableKeys(tbl) ==
    UNION {UNION {{Triple(p, m, c) : c \in DOMAIN tbl[p][m]} : m \in DOMAIN tbl[p]} :
            p \in DOMAIN tbl}

\* Unchecked: the coordinates whose flag is false.
Unchecked(tbl) == {t \in TableKeys(tbl) : ~tbl[t.path][t.method][t.code]}

\* MarkChecked: false for a nil response map; otherwise r[resCode] = true,
\* which also inserts resCode when the map does not hold it, and true.
MarkCheckedResult(tbl, path, method, resCode) == HasResponseMap(tbl, path, method)

MarkCheckedTable(tbl, path, method, resCode) ==
    IF ~HasResponseMap(tbl, path, method) THEN tbl
    ELSE LET r == responseMap(tbl, path, method)
             r2 == [c \in DOMAIN r \cup {resCode} |-> IF c = resCode THEN TRUE ELSE r[c]]
         IN  [tbl EXCEPT ![path][ToUpper(method)] = r2]

\* The arguments the table's operations are called with.
TablePaths == {TplThingId, TplThingX, SlashQ}
TableMethodArgs == {"GET", "get", "DELETE"}
TableCodeArgs == {C200, C404, C500}

MarkCheckedCall(path, method, resCode) ==
    /\ paths' = MarkCheckedTable(paths, path, method, resCode)
    /\ lastOp' = "MarkChecked"
    /\ ret' = [args |-> Triple(path, ToUpper(method), resCode),
               val |-> MarkCheckedResult(paths, path, method, resCode)]
    /\ UNCHANGED <<log, doc, conf, endpoints, errors, reqCounter>>
    /\ UNCHANGED concVars

IsCheckedCall(path, method, resCode) ==
    /\ lastOp' = "IsChecked"
    /\ ret' = [args |-> Triple(path, ToUpper(method), resCode),
               val |-> IsChecked(paths, path, method, resCode)]
    /\ UNCHANGED <<log, doc, conf, endpoints, errors, reqCounter, paths>>
    /\ UNCHANGED concVars

UncheckedCall ==
    /\ lastOp' = "Unchecked"
    /\ \E order \in Orders(Unchecked(paths)) : ret' = [list |-> order]
    /\ UNCHANGED <<log, doc, conf, endpoints, errors, reqCounter, paths>>
    /\ UNCHANGED concVars

----
\* The specifications.

\* NewVerifier with the options c: the document is loaded in one of the
\* orders the maps may be ranged over; newEndpoints builds the table from the
\* same document.
NewVerifier(d, c) ==
    /\ doc = d
    /\ conf = c
    /\ \E pathOrder \in Orders(DocPaths(d)), respOrder \in ResponseOrders(d) :
            endpoints = LoadPaths(d, c, pathOrder, respOrder)
    /\ errors = <<>>
    /\ reqCounter = 0
    /\ paths = newEndpoints(d, c.checkInternalServerErrors)
    /\ mu = 0
    /\ goroutines = [g \in 1..Goroutines |-> [pc |-> "idle"]]
    /\ serial = <<>>
    /\ log = <<>>
    /\ lastOp = "NewVerifier"
    /\ ret = Nil

Init == \E d \in Docs, c \in Configs : NewVerifier(d, c)

\* The verifier's calls.
Next ==
    \/ \E ex \in SchemaExchanges : Record(ex)
    \/ CurrentErrorsCall
    \/ CurrentErrorCall
    \/ VerifyCall
    \/ Reset

Spec == Init /\ [][Next]_vars

\* The verifier with and without a request logger and request validation,
\* and every verdict of the validators.
LogInit == \E d \in {DocDelete, DocOverlap}, c \in LogConfigs : NewVerifier(d, c)

LogNext ==
    \/ \E ex \in Exchanges : Record(ex)
    \/ CurrentErrorsCall
    \/ CurrentErrorCall
    \/ VerifyCall
    \/ Reset

LogSpec == LogInit /\ [][LogNext]_vars

\* The coverage table's calls.
TableInit ==
    \E d \in Docs, check500 \in BOOLEAN :
        NewVerifier(d, [DefaultConfig EXCEPT !.checkInternalServerErrors = check500])

TableNext ==
    \/ \E p \in TablePaths, m \in TableMethodArgs, c \in TableCodeArgs : MarkCheckedCall(p, m, c)
    \/ \E p \in TablePaths, m \in TableMethodArgs, c \in TableCodeArgs : IsCheckedCall(p, m, c)
    \/ UncheckedCall

TableSpec == TableInit /\ [][TableNext]_vars

\* The verifier with every verdict of ValidateResponse, with and without
\* WithIgnoredUnsupportedBodyFormats, and every body.
BodyInit ==
    \E i \in BOOLEAN :
        NewVerifier(DocDelete, [DefaultConfig EXCEPT !.ignoreUnsupportedBodyFormats = i])

BodyNext ==
    \/ \E ex \in BodyExchanges : Record(ex)
    \/ CurrentErrorsCall
    \/ Reset

BodySpec == BodyInit /\ [][BodyNext]_vars

\* The verifier with and without request validation and with and without
\* ignored unsupported formats, every verdict of both validators, and
\* responses with and without a Body.
ValidationConfigs ==
    { [DefaultConfig EXCEPT !.checkRequest = r, !.ignoreUnsupportedBodyFormats = i] :
        r \in BOOLEAN, i \in BOOLEAN }

ValidationExchanges ==
    LET withBody == {ex \in Exchanges : ex.status = 200 /\ ex.path \in {SlashTX, SlashQ}}
    IN  withBody
            \cup { [ex EXCEPT !.body = <<>>, !.hasBody = FALSE, !.read = n] :
                        ex \in {e \in withBody : e.method = "DELETE"}, n \in {0, 1} }

ValidationInit == \E d \in {DocDelete, DocMethods}, c \in ValidationConfigs : NewVerifier(d, c)

ValidationNext ==
    \/ \E ex \in ValidationExchanges : Record(ex)
    \/ CurrentErrorsCall
    \/ Reset

ValidationSpec == ValidationInit /\ [][ValidationNext]_vars

\* The verifier with and without a request logger, with and without
\* request validation, and every verdict of both validators.
SinkConfigs ==
    { [DefaultConfig EXCEPT !.requestLogger = l, !.checkRequest = r] :
        l \in BOOLEAN, r \in BOOLEAN }

SinkExchanges == {ex \in Exchanges : ex.status = 200 /\ ex.path \in {SlashTX, SlashQ}}

SinkInit == \E d \in {DocDelete, DocMethods}, c \in SinkConfigs : NewVerifier(d, c)

SinkNext ==
    \/ \E ex \in SinkExchanges : Record(ex)
    \/ CurrentErrorsCall
    \/ CurrentErrorCall
    \/ VerifyCall
    \/ Reset

SinkSpec == SinkInit /\ [][SinkNext]_vars

\* The verifier of two templates whose matchers both take /t/x, with and
\* without request validation, and every verdict of both validators.
OverlapExchanges == {ex \in Exchanges : ex.method = "GET" /\ ex.status = 200}

OverlapInit ==
    \E r \in BOOLEAN : NewVerifier(DocOverlap, [DefaultConfig EXCEPT !.checkRequest = r])

OverlapNext ==
    \/ \E ex \in OverlapExchanges : Record(ex)
    \/ CurrentErrorsCall
    \/ Reset

OverlapSpec == OverlapInit /\ [][OverlapNext]_vars

\* The calls that touch the checked flags: those of the verifier on its
\* endpoints and MarkChecked on the coverage table.
FlagExchanges == {ex \in SinkExchanges : ex.requestErr = Nil}

FlagInit == \E d \in {DocDelete, DocMethods} : NewVerifier(d, DefaultConfig)

FlagNext ==
    \/ \E ex \in FlagExchanges : Record(ex)
    \/ CurrentErrorsCall
    \/ CurrentErrorCall
    \/ VerifyCall
    \/ \E p \in {TplThingId, TplThingX}, m \in {"GET", "DELETE"}, c \in {C200, C404} :
            MarkCheckedCall(p, m, c)
    \/ Reset

FlagSpec == FlagInit /\ [][FlagNext]_vars

\* v.errors as a Go slice, and the slice CurrentErrors returns to its caller.
\* The capacity of a slice grown from nil by appends of one element: append
\* doubles a full backing array, so it is the least power of two that holds
\* the length.
RECURSIVE CapFrom(_, _)
CapFrom(cap, n) == IF n <= cap THEN cap ELSE CapFrom(IF cap = 0 THEN 1 ELSE 2 * cap, n)
Cap(n) == CapFrom(0, n)

\* v.errors = append(v.errors, e), with the slice the caller holds: within
\* the capacity the element is written behind the ledger in the same array,
\* where a held slice of that array has it too; beyond the capacity the
\* ledger moves to a new array and the held slice keeps the old one.
AppendToLedger(s, e) ==
    LET n == Len(s.ledger)
    IN  IF n + 1 <= Cap(n)
        THEN [ledger |-> Append(s.ledger, e),
              held |-> IF s.shared /\ n + 1 <= Len(s.held)
                       THEN [s.held EXCEPT ![n + 1] = e] ELSE s.held,
              shared |-> s.shared]
        ELSE [ledger |-> Append(s.ledger, e), held |-> s.held, shared |-> FALSE]

RECURSIVE AppendAllToLedger(_, _)
AppendAllToLedger(s, es) ==
    IF es = <<>> THEN s ELSE AppendAllToLedger(AppendToLedger(s, es[1]), Tail(es))

\* Record, with its appends followed into the slice the caller holds.
SliceRecord(ex) ==
    LET n == Len(errors)
        all == RecordErrors(conf, endpoints, errors, ex)
        after == AppendAllToLedger([ledger |-> errors, held |-> ret.list, shared |-> ret.shared],
                                   SubSeq(all, n + 1, Len(all)))
    IN  /\ Len(all) <= MaxLedger
        /\ endpoints' = RecordEndpoints(endpoints, ex)
        /\ errors' = after.ledger
        /\ lastOp' = "Record"
        /\ ret' = [list |-> after.held, shared |-> after.shared]
        /\ UNCHANGED <<log, doc, conf, reqCounter, paths>>
        /\ UNCHANGED concVars

\* return append(v.errors, errs...): v.errors itself when errs is empty, the
\* array of v.errors with errs written behind the ledger when the capacity
\* holds them, and a new array otherwise.
ReturnedInPlace(c, eps, errs) ==
    LET k == Len(CurrentErrors(c, eps, errs)) - Len(errs)
    IN  errs # <<>> /\ Len(errs) + k <= Cap(Len(errs))

\* CurrentErrors with a caller that keeps the returned slice (take) or keeps
\* the slice of an earlier call.
SliceCurrentErrors(take) ==
    LET n == Len(errors)
        list == CurrentErrors(conf, endpoints, errors)
        inPlace == ReturnedInPlace(conf, endpoints, errors)
        written == [k \in 1..Len(ret.list) |->
                        IF ret.shared /\ inPlace /\ n < k /\ k <= Len(list)
                        THEN list[k] ELSE ret.list[k]]
    IN  /\ lastOp' = "CurrentErrors"
        /\ ret' = IF take THEN [list |-> list, shared |-> inPlace]
                          ELSE [list |-> written, shared |-> ret.shared]
        /\ UNCHANGED <<log, doc, conf, endpoints, errors, reqCounter, paths>>
        /\ UNCHANGED concVars

\* The caller assigns errs[k] = errs[j] in the slice it holds, as an in-place
\* filter does; an element of the ledger's array below the ledger's length is
\* an entry of the ledger.
CallerAssign(k, j) ==
    /\ k \in 1..Len(ret.list)
    /\ j \in 1..Len(ret.list)
    /\ k # j
    /\ lastOp' = "CallerAssign"
    /\ ret' = [ret EXCEPT !.list[k] = ret.list[j]]
    /\ errors' = IF ret.shared /\ k <= Len(errors)
                 THEN [errors EXCEPT ![k] = ret.list[j]] ELSE errors
    /\ UNCHANGED <<log, doc, conf, endpoints, reqCounter, paths>>
    /\ UNCHANGED concVars

SliceExchanges ==
    {ex \in SinkExchanges : (ex.method = "DELETE" \/ ex.path = SlashQ) /\ ex.requestErr = Nil
                                /\ ex.responseErr \in {Nil, ResponseError}}

SliceInit ==
    /\ doc = DocDelete
    /\ conf = DefaultConfig
    /\ \E pathOrder \in Orders(DocPaths(doc)), respOrder \in ResponseOrders(doc) :
            endpoints = LoadPaths(doc, conf, pathOrder, respOrder)
    /\ errors = <<>>
    /\ reqCounter = 0
    /\ paths = newEndpoints(doc, conf.checkInternalServerErrors)
    /\ mu = 0
    /\ goroutines = [g \in 1..Goroutines |-> [pc |-> "idle"]]
    /\ serial = <<>>
    /\ log = <<>>
    /\ lastOp = "NewVerifier"
    /\ ret = [list |-> <<>>, shared |-> FALSE]

SliceNext ==
    \/ \E ex \in SliceExchanges : SliceRecord(ex)
    \/ \E take \in BOOLEAN : SliceCurrentErrors(take)
    \/ \E k \in 1..(MaxLedger + 1), j \in 1..(MaxLedger + 1) : CallerAssign(k, j)

SliceSpec == SliceInit /\ [][SliceNext]_vars

\* A verifier with a base path. The arguments of WithBasePath, with and
\* without surrounding slashes and with a character the pattern reads as
\* its any-character.
BaseArgs == {<<"/", "b">>, <<"b", "/">>, <<"/", "v", ".", "1">>}

\* Requests under the base path, without it, and under a path that differs
\* from the base path in one character.
BasePathsRequested ==
    { <<"/", "b">> \o SlashT7, <<"/", "v", ".", "1">> \o SlashT7,
      <<"/", "v", "0", "1">> \o SlashT7, SlashT7, <<"/", "b">> \o SlashQ }

BaseExchanges ==
    { [method |-> "DELETE", path |-> p, status |-> 200,
       requestErr |-> Nil, responseErr |-> v,
       body |-> WholeBody, hasBody |-> TRUE, read |-> Len(WholeBody),
       dumps |-> <<TRUE, TRUE>>] :
        p \in BasePathsRequested, v \in {Nil, ResponseError} }

BaseInit ==
    \E b \in BaseArgs :
        NewVerifier(DocDelete, [DefaultConfig EXCEPT !.basePath = WithBasePath(b)])

BaseNext ==
    \/ \E ex \in BaseExchanges : Record(ex)
    \/ CurrentErrorsCall
    \/ CurrentErrorCall
    \/ Reset

BaseSpec == BaseInit /\ [][BaseNext]_vars

\* A verifier without a base path and with the base path WithBasePath
\* stores for "" and for "/", and requests for the documented path itself,
\* for the path after one more "/", and for a path the document lacks.
RootArgs == {<<>>, <<"/">>}

RootConfigs ==
    {DefaultConfig} \cup {[DefaultConfig EXCEPT !.basePath = WithBasePath(b)] : b \in RootArgs}

RootExchanges ==
    { [method |-> m, path |-> p, status |-> 200,
       requestErr |-> Nil, responseErr |-> v,
       body |-> WholeBody, hasBody |-> TRUE, read |-> Len(WholeBody),
       dumps |-> <<TRUE, TRUE>>] :
        m \in {"GET", "DELETE"}, p \in {SlashTX, <<"/">> \o SlashTX, SlashQ},
        v \in {Nil, ResponseError} }

RootInit == \E d \in {DocDelete, DocMethods}, c \in RootConfigs : NewVerifier(d, c)

RootNext ==
    \/ \E ex \in RootExchanges : Record(ex)
    \/ CurrentErrorsCall
    \/ CurrentErrorCall
    \/ Reset

RootSpec == RootInit /\ [][RootNext]_vars

\* Errors built by joinError and fmt.Errorf from a cause, and errors.Is on
\* them, as TestJoinErrorIs does; no verifier is involved.
Sentinels == {ErrNotChecked, ErrNotPartOfSpec, ErrResponseInvalid, ErrRequestInvalid}
Causes == {New(1), New(2)}
Targets == {SentinelValue(s) : s \in Sentinels} \cup Causes

JoinErrorCall(sentinel) ==
    /\ Depth(ret.err) < MaxDepth
    /\ lastOp' = "joinError"
    /\ ret' = [err |-> joinError(sentinel, ret.err)]
    /\ UNCHANGED <<log, doc, conf, endpoints, errors, reqCounter, paths>>
    /\ UNCHANGED concVars

ErrorfCall ==
    /\ Depth(ret.err) < MaxDepth
    /\ lastOp' = "Errorf"
    /\ ret' = [err |-> Errorf(<<>>, ret.err)]
    /\ UNCHANGED <<log, doc, conf, endpoints, errors, reqCounter, paths>>
    /\ UNCHANGED concVars

IsCall(target) ==
    /\ lastOp' = "Is"
    /\ ret' = [err |-> ret.err, target |-> target, is |-> Is(ret.err, target)]
    /\ UNCHANGED <<log, doc, conf, endpoints, errors, reqCounter, paths>>
    /\ UNCHANGED concVars

ErrorInit ==
    /\ doc = {}
    /\ conf = DefaultConfig
    /\ endpoints = <<>>
    /\ errors = <<>>
    /\ reqCounter = 0
    /\ paths = newEndpoints({}, FALSE)
    /\ mu = 0
    /\ goroutines = [g \in 1..Goroutines |-> [pc |-> "idle"]]
    /\ serial = <<>>
    /\ log = <<>>
    /\ lastOp = "New"
    /\ \E c \in Causes : ret = [err |-> c]

ErrorNext ==
    \/ \E s \in Sentinels : JoinErrorCall(s)
    \/ ErrorfCall
    \/ \E t \in Targets : IsCall(t)

ErrorSpec == ErrorInit /\ [][ErrorNext]_vars

\* The matcher loadPath compiles for one template, with and without a base
\* path, against requested paths: uriRe.MatchString as Record calls it.
TplIdThing == <<"/", "{", "i", "}", "/", "t">>
TplIdId == <<"/", "{", "i", "}", "/", "{", "j", "}">>
MatchTemplates == {TplThingId, TplThingX, TplIdThing, TplIdId}

\* WithBasePath of a plain name and of a name with the pattern's
\* any-character, and no base path.
MatchBases == {<<>>, WithBasePath(<<"b">>), WithBasePath(<<"v", ".", "1">>)}

\* The segments of a requested path: empty, literals of the templates and
\* values of one and of two characters.
Segments == {<<>>, <<"t">>, <<"x">>, <<"7">>, <<"7", "7">>}

\* The path with a "/" before each of its segments.
RECURSIVE JoinSegments(_)
JoinSegments(segs) ==
    IF segs = <<>> THEN <<>>
    ELSE <<"/">> \o segs[1] \o JoinSegments(Tail(segs))

\* req.URL.EscapedPath(): up to MaxSegments segments, below nothing, below a
\* base path, and below a path that differs from a base path in one character.
MatchPrefixes == MatchBases \cup {<<"/", "v", "0", "1">>}
MatchPaths ==
    { pre \o JoinSegments(segs) :
        pre \in MatchPrefixes,
        segs \in UNION {[1..n -> Segments] : n \in 0..MaxSegments} }

\* end.uriRe.MatchString(req.URL.EscapedPath()) for the endpoint of the
\* template and the path of the request at hand.
MatchStringCall ==
    /\ Len(endpoints) = 1
    /\ lastOp' = "MatchString"
    /\ ret' = [path |-> ret.path, matched |-> MatchString(endpoints[1].uriRe, ret.path)]
    /\ UNCHANGED <<log, doc, conf, endpoints, errors, reqCounter, paths>>
    /\ UNCHANGED concVars

\* A verifier of one template and a request with one of the paths.
MatchInit ==
    \E t \in MatchTemplates, b \in MatchBases, s \in MatchPaths :
        LET d == {Triple(t, "GET", C200)}
            c == [DefaultConfig EXCEPT !.basePath = b]
        IN  /\ doc = d
            /\ conf = c
            /\ \E pathOrder \in Orders(DocPaths(d)), respOrder \in ResponseOrders(d) :
                    endpoints = LoadPaths(d, c, pathOrder, respOrder)
            /\ errors = <<>>
            /\ reqCounter = 0
            /\ paths = newEndpoints(d, c.checkInternalServerErrors)
            /\ mu = 0
            /\ goroutines = [g \in 1..Goroutines |-> [pc |-> "idle"]]
            /\ serial = <<>>
            /\ log = <<>>
            /\ lastOp = "NewVerifier"
            /\ ret = [path |-> s]

MatchNext == MatchStringCall

MatchSpec == MatchInit /\ [][MatchNext]_vars

\* WithBasePath as an option applied to a config: to the argument at hand,
\* and to the base path an earlier application has stored.
BasePathArgs == UNION {[1..n -> {"/", "b", "v"}] : n \in 0..MaxBaseLen}

WithBasePathCall(path) ==
    /\ lastOp' = "WithBasePath"
    /\ conf' = [conf EXCEPT !.basePath = WithBasePath(path)]
    /\ ret' = [arg |-> ret.arg, path |-> path, before |-> conf.basePath]
    /\ UNCHANGED <<log, doc, endpoints, errors, reqCounter, paths>>
    /\ UNCHANGED concVars

BasePathInit ==
    /\ doc = {}
    /\ conf = DefaultConfig
    /\ endpoints = <<>>
    /\ errors = <<>>
    /\ reqCounter = 0
    /\ paths = newEndpoints({}, FALSE)
    /\ mu = 0
    /\ goroutines = [g \in 1..Goroutines |-> [pc |-> "idle"]]
    /\ serial = <<>>
    /\ log = <<>>
    /\ lastOp = "getConfig"
    /\ \E p \in BasePathArgs : ret = [arg |-> p]

BasePathNext ==
    \/ WithBasePathCall(ret.arg)
    \/ lastOp = "WithBasePath" /\ WithBasePathCall(conf.basePath)

BasePathSpec == BasePathInit /\ [][BasePathNext]_vars

\* uriRe.FindStringSubmatch(s) for a path the pattern matches, without its
\* element 0: the text of every group in the order of the groups. [^/]+ is
\* greedy, so a group takes the most characters that let the rest match.
RECURSIVE Submatches(_, _)
Submatches(tokens, s) ==
    IF tokens = <<>> THEN <<>>
    ELSE IF tokens[1].kind = "lit"
    THEN Submatches(Tail(tokens), Tail(s))
    ELSE LET fits == {k \in 1..Len(s) :
                        /\ \A j \in 1..k : s[j] # "/"
                        /\ MatchString(Tail(tokens), SubSeq(s, k + 1, Len(s)))}
             most == CHOOSE k \in fits : \A j \in fits : j <= k
         IN  <<SubSeq(s, 1, most)>>
                \o Submatches(Tail(tokens), SubSeq(s, most + 1, Len(s)))

FindStringSubmatch(tokens, s) == <<s>> \o Submatches(tokens, s)

\* uriRe.SubexpNames(): the empty name of the whole match at index 0, then
\* the names of the groups.
GroupNames(tokens) ==
    LET groups == SelectSeq(tokens, LAMBDA t : t.kind = "grp")
    IN  [k \in 1..Len(groups) |-> groups[k].val]

SubexpNames(tokens) == <<<<>>>> \o GroupNames(tokens)

\* A loop over the names that leaves the whole match out.
ParamsOfGroups(names, matches) ==
    LET last(n) == CHOOSE i \in 2..Len(names) :
                        /\ names[i] = n
                        /\ \A j \in 2..Len(names) : names[j] = n => j <= i
    IN  [n \in {names[i] : i \in 2..Len(names)} |-> matches[last(n)]]

\* for i, name := range SubexpNames() { params[name] = matches[i] }: a later
\* index of a name overwrites an earlier one.
Params(names, matches) ==
    LET last(n) == CHOOSE i \in 1..Len(names) :
                        /\ names[i] = n
                        /\ \A j \in 1..Len(names) : names[j] = n => j <= i
    IN  [n \in Range(names) |-> matches[last(n)]]

\* The PathParams Record builds for the endpoint and the path at hand.
PathParamsCall ==
    /\ Len(endpoints) = 1
    /\ lastOp' = "PathParams"
    /\ ret' = [path |-> ret.path,
               matched |-> MatchString(endpoints[1].uriRe, ret.path),
               params |-> IF MatchString(endpoints[1].uriRe, ret.path)
                          THEN Params(SubexpNames(endpoints[1].uriRe),
                                      FindStringSubmatch(endpoints[1].uriRe, ret.path))
                          ELSE Nil]
    /\ UNCHANGED <<log, doc, conf, endpoints, errors, reqCounter, paths>>
    /\ UNCHANGED concVars

ParamInit == MatchInit

ParamNext == PathParamsCall

ParamSpec == ParamInit /\ [][ParamNext]_vars

----
\* NewVerifier as a call: loadSpec, getConfig, loadPaths and their errors.

\* The capture group names the model's patterns may use: regexp.Compile
\* rejects (?P<name>...) for an empty name and for a name with a character
\* that is no letter, digit or underscore.
GroupNameValid(name) ==
    /\ name # <<>>
    /\ \A i \in 1..Len(name) : name[i] \notin {"-", "/", ".", "{", "}"}

\* regexp.Compile(uri) returns an error: some group of the pattern has an
\* invalid name, or two groups have the same name.
CompileError(basePath, path) ==
    LET tokens == CompileUri(basePath, path)
        groups == {i \in 1..Len(tokens) : tokens[i].kind = "grp"}
    IN  \/ \E i \in groups : ~GroupNameValid(tokens[i].val)
        \/ \E i, j \in groups : i # j /\ tokens[i].val = tokens[j].val

TplHyphen == <<"/", "t", "/", "{", "-", "}">>
DocHyphen == {Triple(TplHyphen, "GET", C200)}
DocPartial == {Triple(TplThingX, "GET", C200), Triple(TplHyphen, "GET", C200)}

\* The bytes given to NewVerifier: bytes the loader cannot parse, a document
\* that fails Validate, or a valid document.
SpecBytes ==
    { [kind |-> k, doc |-> {}] : k \in {"malformed", "invalid"} }
        \cup { [kind |-> "valid", doc |-> d] : d \in {DocDelete, DocOverlap, DocHyphen, DocPartial} }

CtorConfigs ==
    { [DefaultConfig EXCEPT !.basePath = b, !.checkInternalServerErrors = s] :
        b \in {<<>>, WithBasePath(<<"b">>)}, s \in BOOLEAN }

\* loadSpec: the document and a nil error, or nil and the error.
loadSpec(specBytes) ==
    CASE specBytes.kind = "malformed" ->
            [spec |-> Nil, err |-> Errorf(<<"unable to parse spec data">>, [kind |-> "LoaderError"])]
      [] specBytes.kind = "invalid" ->
            [spec |-> Nil, err |-> Errorf(<<"schema is not valid">>, [kind |-> "ValidateError"])]
      [] OTHER -> [spec |-> specBytes.doc, err |-> Nil]

\* loadPaths on v: the endpoints appended until the first path whose pattern
\* does not compile, and the error of that path (nil when all compile).
RECURSIVE loadPaths(_, _, _, _)
loadPaths(d, c, pathOrder, respOrder) ==
    IF pathOrder = <<>> THEN [endpoints |-> <<>>, err |-> Nil]
    ELSE IF CompileError(c.basePath, pathOrder[1])
    THEN [endpoints |-> <<>>,
          err |-> Errorf(<<"unable to loadPaths path", pathOrder[1]>>,
                         Errorf(<<"could not compile regex for", pathOrder[1]>>,
                                [kind |-> "CompileError"]))]
    ELSE LET rest == loadPaths(d, c, Tail(pathOrder), respOrder)
         IN  [endpoints |-> LoadPath(d, c, pathOrder[1], respOrder) \o rest.endpoints,
              err |-> rest.err]

\* The Verifier value: what NewVerifier has put in *v.
VerifierOf(d, c, eps) == [spec |-> d, conf |-> c, endpoints |-> eps, errors |-> <<>>]

\* A NewVerifier that returns v together with the error of loadPaths.
NewVerifierKeepsPartial(specBytes, c, pathOrder, respOrder) ==
    IF loadSpec(specBytes).err # Nil
    THEN [v |-> Nil, err |-> loadSpec(specBytes).err]
    ELSE [v |-> VerifierOf(specBytes.doc, c,
                           loadPaths(specBytes.doc, c, pathOrder, respOrder).endpoints),
          err |-> loadPaths(specBytes.doc, c, pathOrder, respOrder).err]

\* NewVerifier: (nil, err) when loadSpec or loadPaths fails, (v, nil) otherwise.
NewVerifierResult(specBytes, c, pathOrder, respOrder) ==
    IF loadSpec(specBytes).err # Nil
    THEN [v |-> Nil, err |-> loadSpec(specBytes).err]
    ELSE IF loadPaths(specBytes.doc, c, pathOrder, respOrder).err # Nil
    THEN [v |-> Nil, err |-> loadPaths(specBytes.doc, c, pathOrder, respOrder).err]
    ELSE [v |-> VerifierOf(specBytes.doc, c,
                           loadPaths(specBytes.doc, c, pathOrder, respOrder).endpoints),
          err |-> Nil]

\* The caller's call of NewVerifier: with a verifier returned the state is
\* that verifier, without one the caller has none.
NewVerifierCall(specBytes, c) ==
    \E pathOrder \in Orders(DocPaths(specBytes.doc)), respOrder \in ResponseOrders(specBytes.doc) :
        LET res == NewVerifierResult(specBytes, c, pathOrder, respOrder)
        IN  /\ lastOp' = "NewVerifierCall"
            /\ ret' = [v |-> res.v, err |-> res.err, specBytes |-> specBytes, conf |-> c]
            /\ doc' = IF res.v # Nil THEN res.v.spec ELSE {}
            /\ conf' = IF res.v # Nil THEN res.v.conf ELSE DefaultConfig
            /\ endpoints' = IF res.v # Nil THEN res.v.endpoints ELSE <<>>
            /\ errors' = <<>>
            /\ reqCounter' = 0
            /\ log' = log
            /\ paths' = IF res.v # Nil
                         THEN newEndpoints(res.v.spec, c.checkInternalServerErrors)
                         ELSE newEndpoints({}, FALSE)
            /\ UNCHANGED concVars

\* No verifier yet.
CtorInit ==
    /\ doc = {}
    /\ conf = DefaultConfig
    /\ endpoints = <<>>
    /\ errors = <<>>
    /\ reqCounter = 0
    /\ paths = newEndpoints({}, FALSE)
    /\ mu = 0
    /\ goroutines = [g \in 1..Goroutines |-> [pc |-> "idle"]]
    /\ serial = <<>>
    /\ log = <<>>
    /\ lastOp = "none"
    /\ ret = Nil

\* The exchanges recorded with a constructed verifier.
CtorExchanges ==
    {ex \in SchemaExchanges : /\ ex.requestErr = Nil /\ ex.responseErr = Nil
                              /\ ex.method = "GET" /\ ex.status = 200}

\* The verifier a call returned is used; a caller without one can only
\* construct.
CtorNext ==
    \/ \E b \in SpecBytes, c \in CtorConfigs : NewVerifierCall(b, c)
    \/ doc # {} /\ \E ex \in CtorExchanges : Record(ex)
    \/ doc # {} /\ CurrentErrorsCall

CtorSpec == CtorInit /\ [][CtorNext]_vars

----
\* ValidatingClient: WrapClient, WithClient, Do, Head, Get, Put, Post, Delete
\* and recordResponse.

\* The Verifier of the state, as the pointer a ValidatingClient embeds.
TheVerifier == "v"

\* WrapClient(c, spec, opts...) for a spec NewVerifier accepts.
WrapClient(c) == [v |-> [c |-> c, Verifier |-> TheVerifier], err |-> Nil]

\* A WithClient that builds a Verifier of its own.
WithClientOwnVerifier(v, c) ==
    IF v = Nil THEN [v |-> Nil, err |-> [kind |-> "errorString", id |-> 0]]
    ELSE [v |-> [c |-> c, Verifier |-> "fresh"], err |-> Nil]

\* WithClient: an error for a nil receiver, else the new http client with
\* the receiver's Verifier.
WithClient(v, c) ==
    IF v = Nil THEN [v |-> Nil, err |-> [kind |-> "errorString", id |-> 0]]
    ELSE [v |-> [c |-> c, Verifier |-> v.Verifier], err |-> Nil]

\* The client of the test, one derived from it and one derived from that.
Clients ==
    { WrapClient("default").v,
      WithClient(WrapClient("default").v, "other").v,
      WithClient(WithClient(WrapClient("default").v, "other").v, "third").v }

ClientMethods == {"Do", "Head", "Get", "Put", "Post", "Delete"}

\* The request method each convenience method sends; Do sends the request's.
MethodsOf(fn) ==
    CASE fn = "Head" -> {"HEAD"}
      [] fn = "Get" -> {"GET"}
      [] fn = "Put" -> {"PUT"}
      [] fn = "Post" -> {"POST"}
      [] fn = "Delete" -> {"DELETE"}
      [] OTHER -> {"GET", "DELETE"}

TransportError == [kind |-> "TransportError"]

\* What the underlying http.Client call returns for a request of the method:
\* a response and no error, no response and an error, or (a refused
\* redirect) the last response and an error.
Outcomes(method) ==
    LET resps == { [method |-> method, path |-> p, status |-> 200,
                    requestErr |-> Nil, responseErr |-> Nil,
                    body |-> WholeBody, hasBody |-> TRUE, read |-> Len(WholeBody),
       dumps |-> <<TRUE, TRUE>>] :
                        p \in {SlashT7} }
    IN  { [resp |-> r, err |-> Nil] : r \in resps }
            \cup { [resp |-> Nil, err |-> TransportError] }
            \cup { [resp |-> r, err |-> TransportError] : r \in resps }

\* A recordResponse that records whatever the error.
RecordedAlways(resp, err) == IF resp # Nil THEN <<resp>> ELSE <<>>

\* recordResponse: the responses it hands to Record.
Recorded(resp, err) == IF err = Nil THEN <<resp>> ELSE <<>>

\* http.NewRequest fails for a URL that does not parse.
Urls == {"valid", "invalid"}
NewRequestError == [kind |-> "NewRequestError"]

\* One call of a method of the client h. Put and Delete build the request
\* themselves: Delete returns the error of NewRequest without a call, Put
\* sets the header on the request before it looks at the error, and for a nil
\* request that raises. The other methods hand the URL to the http client,
\* whose error is one of the outcomes.
ClientCall(h, fn, url, out) ==
    LET built == fn \in {"Put", "Delete"} /\ url = "invalid"
        recorded == IF built THEN <<>> ELSE Recorded(out.resp, out.err)
        own == h.Verifier = TheVerifier
        records == recorded # <<>> /\ own
    IN  /\ Len(errors) < MaxErrors
        /\ reqCounter < MaxRequests
        /\ lastOp' = "ClientCall"
        /\ ret' = [ client |-> h, fn |-> fn,
                    called |-> ~built,
                    panic |-> (fn = "Put" /\ url = "invalid"),
                    underlying |-> out,
                    result |-> IF built THEN [resp |-> Nil, err |-> NewRequestError] ELSE out,
                    recorded |-> recorded,
                    eps0 |-> endpoints, errs0 |-> errors ]
        /\ endpoints' = IF records THEN RecordEndpoints(endpoints, recorded[1]) ELSE endpoints
        /\ errors' = IF records THEN RecordErrors(conf, endpoints, errors, recorded[1]) ELSE errors
        /\ reqCounter' = IF records THEN RecordCounter(conf, reqCounter) ELSE reqCounter
        /\ log' = IF records
                  THEN log \o RecordLog(conf, RecordCounter(conf, reqCounter), recorded[1])
                  ELSE log
        /\ UNCHANGED <<doc, conf, paths>>
        /\ UNCHANGED concVars

ClientInit ==
    \E d \in {DocDelete, DocServerError} : NewVerifier(d, DefaultConfig)

ClientNext ==
    \/ \E h \in Clients, fn \in ClientMethods :
            \E m \in MethodsOf(fn) : \E out \in Outcomes(m) : ClientCall(h, fn, "valid", out)
    \/ \E h \in Clients, fn \in ClientMethods :
            \E m \in MethodsOf(fn) :
                ClientCall(h, fn, "invalid", [resp |-> Nil, err |-> NewRequestError])
    \/ CurrentErrorsCall
    \/ VerifyCall

ClientSpec == ClientInit /\ [][ClientNext]_vars

----
\* Concurrent calls: Record and CurrentErrors step by step, under Verifier.mu.

\* A lock that never blocks.
LockNeverHeld(m) == TRUE

\* v.mu.Lock() returns only while no goroutine holds the lock.
LockFree(m) == m = 0

At(g, label) == goroutines[g].pc = label
Goto(g, label) == goroutines' = [goroutines EXCEPT ![g].pc = label]

\* Record up to v.mu.Lock(): the body reset and the request log.
RecordBegin(g, ex) ==
    /\ At(g, "idle")
    /\ reqCounter < MaxRequests
    /\ reqCounter' = RecordCounter(conf, reqCounter)
    /\ log' = log \o RecordLog(conf, RecordCounter(conf, reqCounter), ex)
    /\ goroutines' = [goroutines EXCEPT ![g] = [pc |-> "lock", ex |-> ex]]
    /\ UNCHANGED <<doc, conf, endpoints, errors, paths, mu, serial, lastOp, ret>>

\* v.mu.Lock()
RecordLock(g) ==
    /\ At(g, "lock")
    /\ LockFree(mu)
    /\ mu' = g
    /\ serial' = Append(serial, goroutines[g].ex)
    /\ Goto(g, "loop")
    /\ UNCHANGED <<log, doc, conf, endpoints, errors, reqCounter, paths, lastOp, ret>>

\* The loop up to ValidateRequest, and the fall-through when no endpoint
\* takes the exchange.
RecordLoop(g) ==
    /\ At(g, "loop")
    /\ IF FirstMatch(endpoints, goroutines[g].ex) = 0
       THEN /\ errors' = errors \o UnmatchedErrors(conf, goroutines[g].ex)
            /\ Goto(g, "unlock")
       ELSE /\ errors' = errors \o RequestErrors(conf, goroutines[g].ex)
            /\ Goto(g, "validated")
    /\ UNCHANGED <<log, doc, conf, endpoints, reqCounter, paths, mu, serial, lastOp, ret>>

\* ValidateResponse and end.checked = true; a panic in ValidateResponse
\* unwinds to the deferred unlock.
RecordMark(g) ==
    /\ At(g, "validated")
    /\ IF Panics(endpoints, goroutines[g].ex)
       THEN UNCHANGED endpoints /\ Goto(g, "unlock")
       ELSE /\ endpoints' = SetChecked(endpoints, FirstMatch(endpoints, goroutines[g].ex))
            /\ Goto(g, "marked")
    /\ UNCHANGED <<log, doc, conf, errors, reqCounter, paths, mu, serial, lastOp, ret>>

\* The append of ErrResponseInvalid, or the return that suppresses it.
RecordAppend(g) ==
    /\ At(g, "marked")
    /\ errors' = errors \o ResponseErrors(conf, goroutines[g].ex)
    /\ Goto(g, "unlock")
    /\ UNCHANGED <<log, doc, conf, endpoints, reqCounter, paths, mu, serial, lastOp, ret>>

\* The deferred v.mu.Unlock() and the return of Record.
RecordUnlock(g) ==
    /\ At(g, "unlock")
    /\ mu' = 0
    /\ Goto(g, "done")
    /\ lastOp' = "Record"
    /\ ret' = RecordReturn(conf, endpoints, goroutines[g].ex)
    /\ UNCHANGED <<log, doc, conf, endpoints, errors, reqCounter, paths, serial>>

\* CurrentErrors: v.mu.Lock()
CurrentErrorsLock(g) ==
    /\ At(g, "idle")
    /\ LockFree(mu)
    /\ mu' = g
    /\ Goto(g, "reading")
    /\ UNCHANGED <<log, doc, conf, endpoints, errors, reqCounter, paths, serial, lastOp, ret>>

\* CurrentErrors: the loop, the append, the deferred unlock and the return.
\* The result carries how many Record calls had taken the lock before.
CurrentErrorsReturn(g) ==
    /\ At(g, "reading")
    /\ ret' = [list |-> CurrentErrors(conf, endpoints, errors), after |-> Len(serial)]
    /\ lastOp' = "CurrentErrors"
    /\ mu' = 0
    /\ Goto(g, "done")
    /\ UNCHANGED <<log, doc, conf, endpoints, errors, reqCounter, paths, serial>>

\* The exchanges of the concurrent calls: three requests, each either
\* accepted by both validators or rejected by both.
ConcExchanges ==
    {ex \in SchemaExchanges :
        /\ ex.path \in {SlashTX, SlashQ}
        /\ ex.status = 200
        /\ (ex.requestErr = Nil) <=> (ex.responseErr = Nil)}

ConcInit ==
    NewVerifier(DocMethods, [DefaultConfig EXCEPT !.checkRequest = TRUE])

ConcNext ==
    \E g \in 1..Goroutines :
        \/ \E ex \in ConcExchanges : RecordBegin(g, ex)
        \/ RecordLock(g)
        \/ RecordLoop(g)
        \/ RecordMark(g)
        \/ RecordAppend(g)
        \/ RecordUnlock(g)
        \/ CurrentErrorsLock(g)
        \/ CurrentErrorsReturn(g)

ConcSpec == ConcInit /\ [][ConcNext]_vars

\* Concurrent Record calls of a verifier with a request logger: the part of
\* Record before v.mu.Lock(), statement by statement.

\* The body reset and count := v.reqCounter.Add(1), one atomic add.
RecordCount(g, ex) ==
    /\ At(g, "idle")
    /\ conf.requestLogger
    /\ reqCounter < MaxRequests
    /\ reqCounter' = reqCounter + 1
    /\ goroutines' = [goroutines EXCEPT ![g] = [pc |-> "dumpRequest", ex |-> ex,
                                                count |-> reqCounter + 1]]
    /\ UNCHANGED <<log, doc, conf, endpoints, errors, paths, mu, serial, lastOp, ret>>

\* DumpRequestOut and, when it returned no error, Logf("REQUEST  %04d ...").
RecordLogRequest(g) ==
    /\ At(g, "dumpRequest")
    /\ log' = log \o RequestLine(goroutines[g].count, goroutines[g].ex)
    /\ Goto(g, "dumpResponse")
    /\ UNCHANGED <<doc, conf, endpoints, errors, reqCounter, paths, mu, serial, lastOp, ret>>

\* DumpResponse and, when it returned no error, Logf("RESPONSE %04d ...").
RecordLogResponse(g) ==
    /\ At(g, "dumpResponse")
    /\ log' = log \o ResponseLine(goroutines[g].count, goroutines[g].ex)
    /\ Goto(g, "lock")
    /\ UNCHANGED <<doc, conf, endpoints, errors, reqCounter, paths, mu, serial, lastOp, ret>>

\* One request, with both dumps succeeding, with a request DumpRequestOut
\* rejects (a URL without scheme) and with a response body that fails to read.
ConcLogExchanges ==
    { [ex EXCEPT !.dumps = d] :
        ex \in {e \in ConcExchanges : e.method = "GET" /\ e.path = SlashTX /\ e.requestErr = Nil},
        d \in {<<TRUE, TRUE>>, <<FALSE, TRUE>>, <<TRUE, FALSE>>} }

ConcLogInit ==
    NewVerifier(DocMethods, [DefaultConfig EXCEPT !.requestLogger = TRUE])

ConcLogNext ==
    \E g \in 1..LogGoroutines :
        \/ \E ex \in ConcLogExchanges : RecordCount(g, ex)
        \/ RecordLogRequest(g)
        \/ RecordLogResponse(g)
        \/ RecordLock(g)
        \/ RecordLoop(g)
        \/ RecordMark(g)
        \/ RecordAppend(g)
        \/ RecordUnlock(g)

ConcLogSpec == ConcLogInit /\ [][ConcLogNext]_vars

\* Concurrent Record, CurrentErrors, CurrentError and Verify calls, one per
\* goroutine, with a scheduler that lets every started call take its steps.

\* A Verify that takes the lock itself before it calls CurrentError.
VerifyTakesLock(g, m) == IF m = 0 THEN g ELSE m

\* The holder of v.mu after Verify has begun: Verify has no Lock call.
VerifyHolds(g, m) == m

\* Verify up to its call of CurrentError.
VerifyBegin(g) ==
    /\ At(g, "idle")
    /\ mu' = VerifyHolds(g, mu)
    /\ goroutines' = [goroutines EXCEPT ![g] = [pc |-> "calling", call |-> "Verify"]]
    /\ UNCHANGED <<log, doc, conf, endpoints, errors, reqCounter, paths, serial, lastOp, ret>>

\* CurrentError up to its call of CurrentErrors.
CurrentErrorBegin(g) ==
    /\ At(g, "idle")
    /\ goroutines' = [goroutines EXCEPT ![g] = [pc |-> "calling", call |-> "CurrentError"]]
    /\ UNCHANGED <<log, doc, conf, endpoints, errors, reqCounter, paths, mu, serial, lastOp, ret>>

\* v.mu.Lock() of the CurrentErrors that CurrentError calls; sync.Mutex is
\* not reentrant, so it waits for a lock its own goroutine holds as well.
CalledCurrentErrorsLock(g) ==
    /\ At(g, "calling")
    /\ LockFree(mu)
    /\ mu' = g
    /\ Goto(g, "reading")
    /\ UNCHANGED <<log, doc, conf, endpoints, errors, reqCounter, paths, serial, lastOp, ret>>

\* The four ways out of Record: matched and validated, matched with an
\* ignored unsupported format, unmatched, and unmatched with a suppressed 500.
LiveExchanges ==
    {ex \in Exchanges :
        /\ ex.method = "GET" /\ ex.requestErr = Nil
        /\ \/ ex.path = SlashTX /\ ex.status = 200
                    /\ ex.responseErr \in {Nil, ResponseError, ParseError(KindUnsupportedFormat)}
           \/ ex.path = SlashQ /\ ex.responseErr = Nil}

LiveInit ==
    NewVerifier(DocMethods, [DefaultConfig EXCEPT !.ignoreUnsupportedBodyFormats = TRUE])

\* The steps of a call that has begun.
Proceed(g) ==
    \/ RecordLock(g)
    \/ RecordLoop(g)
    \/ RecordMark(g)
    \/ RecordAppend(g)
    \/ RecordUnlock(g)
    \/ CalledCurrentErrorsLock(g)
    \/ CurrentErrorsReturn(g)

LiveNext ==
    \E g \in 1..LogGoroutines :
        \/ \E ex \in LiveExchanges : RecordBegin(g, ex)
        \/ CurrentErrorsLock(g)
        \/ CurrentErrorBegin(g)
        \/ VerifyBegin(g)
        \/ Proceed(g)

\* The Go scheduler runs every goroutine that can run, and a goroutine that
\* waits in Lock gets the lock once it stays free.
LiveSpec ==
    /\ LiveInit
    /\ [][LiveNext]_vars
    /\ \A g \in 1..LogGoroutines : WF_vars(Proceed(g))

----
\* The claims.

\* The coordinates of the endpoint slice, and those of its unchecked endpoints.
Coordinates(eps) == {<<eps[i].method, eps[i].path, eps[i].response>> : i \in 1..Len(eps)}
UncheckedIndices(eps) == {i \in 1..Len(eps) : ~eps[i].checked}
UncheckedCoordinates(eps) ==
    {<<eps[i].method, eps[i].path, eps[i].response>> : i \in UncheckedIndices(eps)}

\* C1: CurrentErrors returns the ledger, in order, followed (unless full
\* coverage is disabled) by exactly one ErrNotChecked entry for every
\* coordinate that is unchecked at the time of the call; with full coverage
\* disabled it returns the ledger alone. The ledger itself never holds an
\* ErrNotChecked entry.
C1_CurrentErrorsIsLedgerThenUnchecked ==
    /\ \A k \in 1..Len(errors) : errors[k].sentinel # ErrNotChecked
    /\ lastOp = "CurrentErrors" =>
            LET r == ret.list
                n == Len(errors)
                tail == SubSeq(r, n + 1, Len(r))
            IN  /\ Len(r) >= n
                /\ SubSeq(r, 1, n) = errors
                /\ conf.disableFullCoverage => tail = <<>>
                /\ ~conf.disableFullCoverage =>
                        /\ \A k \in 1..Len(tail) :
                                tail[k].kind = "VerificationError" /\ tail[k].sentinel = ErrNotChecked
                        /\ {tail[k].err.msg : k \in 1..Len(tail)} = UncheckedCoordinates(endpoints)
                        /\ Len(tail) = Cardinality(UncheckedCoordinates(endpoints))

\* CurrentErrors has returned a ledger of two entries followed by the entry of
\* the one coordinate left unchecked, another coordinate being checked.
C1_Witness ==
    /\ lastOp = "CurrentErrors"
    /\ ~conf.disableFullCoverage
    /\ Len(errors) = 2
    /\ Len(ret.list) = 3
    /\ \E i \in 1..Len(endpoints) : endpoints[i].checked

\* The documented triples that become coordinates of the verifier: those of a
\* supported method, a "500" only when internal server errors are checked.
SupportedTriples(d, c) ==
    {t \in d : /\ t.method \in Range(supportedMethods)
               /\ (c.checkInternalServerErrors \/ t.code # C500)}

\* C2 as stated: right after construction the number of unchecked coordinates
\* is the number of documented triples, those with status 500 not counted
\* unless internal server errors are checked.
C2_UncheckedCountIsDocumentedTriples ==
    lastOp = "NewVerifier" =>
        Cardinality(UncheckedCoordinates(endpoints))
            = Cardinality({t \in doc : conf.checkInternalServerErrors \/ t.code # C500})

\* C2, amended: right after construction every coordinate is unchecked and the
\* coordinates are the documented triples whose method is one of the seven
\* supported methods, those with status 500 not counted unless internal
\* server errors are checked.
C2_UncheckedCountIsSupportedTriples ==
    lastOp = "NewVerifier" =>
        /\ UncheckedIndices(endpoints) = 1..Len(endpoints)
        /\ Len(endpoints) = Cardinality(SupportedTriples(doc, conf))
        /\ Coordinates(endpoints)
                = {<<t.method, conf.basePath \o t.path, t.code>> : t \in SupportedTriples(doc, conf)}

\* A verifier has been constructed, without the option, from a document that
\* has a 200 and a 500 response of one operation: one coordinate.
C2_Witness ==
    /\ lastOp = "NewVerifier"
    /\ doc = DocServerError
    /\ ~conf.checkInternalServerErrors
    /\ Len(endpoints) = 1

\* An exchange both validators accept.
Conforming(ex) == ex.requestErr = Nil /\ ex.responseErr = Nil

\* Some coordinate takes the exchange, and the first of the slice that does.
Taken(eps, ex) == \E k \in 1..Len(eps) : EndpointMatches(eps[k], ex)
Taker(eps, ex) ==
    CHOOSE k \in 1..Len(eps) :
        /\ EndpointMatches(eps[k], ex)
        /\ \A j \in 1..(k - 1) : ~EndpointMatches(eps[j], ex)

\* after is before with one more entry, of the given sentinel.
AppendsOne(before, after, sentinel) ==
    /\ Len(after) = Len(before) + 1
    /\ SubSeq(after, 1, Len(before)) = before
    /\ after[Len(after)].kind = "VerificationError"
    /\ after[Len(after)].sentinel = sentinel

\* What Record(ex), which leaves RecordEndpoints and RecordErrors in the
\* verifier, does with a conforming exchange that a coordinate takes: that
\* coordinate is checked, every other flag and the ledger are as they were,
\* and a second Record(ex) changes neither the flags nor the ledger.
ConformingRecordEffect(ex) ==
    LET i == Taker(endpoints, ex)
        eps1 == RecordEndpoints(endpoints, ex)
        errs1 == RecordErrors(conf, endpoints, errors, ex)
    IN  /\ eps1 = [k \in 1..Len(endpoints) |->
                    IF k = i THEN [endpoints[k] EXCEPT !.checked = TRUE] ELSE endpoints[k]]
        /\ errs1 = errors
        /\ RecordEndpoints(eps1, ex) = eps1
        /\ RecordErrors(conf, eps1, errs1, ex) = errs1

\* C3 as stated: a Record of a conforming exchange that a coordinate takes
\* checks that coordinate and appends nothing, and recording the same exchange
\* again leaves the whole state of the verifier as the first Record left it.
C3_ConformingRecordIdempotentOnWholeState ==
    \A ex \in Exchanges :
        (Conforming(ex) /\ Taken(endpoints, ex))
            => /\ ConformingRecordEffect(ex)
               /\ RecordCounter(conf, RecordCounter(conf, reqCounter))
                      = RecordCounter(conf, reqCounter)

\* C3, amended: the same of the flags and the ledger; of the sequence number
\* only without a request logger: with one, every Record advances it by one.
C3_ConformingRecordIdempotentOnFlagsAndLedger ==
    \A ex \in Exchanges :
        (Conforming(ex) /\ Taken(endpoints, ex))
            => /\ ConformingRecordEffect(ex)
               /\ RecordCounter(conf, RecordCounter(conf, reqCounter))
                      = IF conf.requestLogger
                        THEN RecordCounter(conf, reqCounter) + 1
                        ELSE RecordCounter(conf, reqCounter)

\* With a request logger and request validation, two Records have returned,
\* the coordinate is checked and the ledger is empty.
C3_Witness ==
    /\ lastOp = "Record"
    /\ conf.requestLogger
    /\ conf.checkRequest
    /\ reqCounter = 2
    /\ errors = <<>>
    /\ doc = DocDelete
    /\ endpoints[1].checked

\* The exchanges of a request, for every verdict of the validators on it.
ExchangesOf(r) ==
    { [method |-> r.method, path |-> r.path, status |-> r.status,
       requestErr |-> q, responseErr |-> p,
       body |-> WholeBody, hasBody |-> TRUE, read |-> Len(WholeBody),
       dumps |-> <<TRUE, TRUE>>] :
        q \in RequestVerdicts, p \in {Nil, ResponseError} }

\* No documented path template matches the path.
NoTemplateMatches(d, c, path) ==
    \A p \in DocPaths(d) : ~MatchString(CompileUri(c.basePath, p), path)

\* What Record(ex) does with an exchange that is not part of the
\* specification: the flags are as they were and the ledger has one
\* ErrNotPartOfSpec more, or nothing more when the status is 500 and internal
\* server errors are not checked.
NotPartOfSpecEffect(ex) ==
    /\ RecordEndpoints(endpoints, ex) = endpoints
    /\ IF ex.status = 500 /\ ~conf.checkInternalServerErrors
       THEN RecordErrors(conf, endpoints, errors, ex) = errors
       ELSE AppendsOne(errors, RecordErrors(conf, endpoints, errors, ex), ErrNotPartOfSpec)

\* C4: a Record of an exchange whose path no documented template matches
\* appends exactly one ErrNotPartOfSpec entry and changes no flag, whatever
\* the options for request validation and full coverage; with status 500 and internal server errors
\* not checked it appends nothing.
C4_UnknownPathIsNotPartOfSpec ==
    \A r \in Requests :
        NoTemplateMatches(doc, conf, r.path) =>
            \A ex \in ExchangesOf(r) : NotPartOfSpecEffect(ex)

\* With full coverage disabled, a Record of GET /q has left its
\* ErrNotPartOfSpec entry and no flag set.
C4_Witness ==
    /\ lastOp = "Record"
    /\ conf.disableFullCoverage
    /\ Len(errors) = 1
    /\ errors[1].sentinel = ErrNotPartOfSpec
    /\ errors[1].err.msg = <<"GET", SlashQ, C200>>
    /\ endpoints # <<>>
    /\ UncheckedIndices(endpoints) = 1..Len(endpoints)

\* No coordinate whose template matches the path has the method and the
\* status of the exchange.
NotRegistered(eps, ex) ==
    \A i \in 1..Len(eps) :
        MatchString(eps[i].uriRe, ex.path)
            => (eps[i].method # ex.method \/ eps[i].response # Itoa(ex.status))

\* C5: a Record of an exchange whose path a documented template matches, but
\* whose method and status are no coordinate of a matching template, is
\* treated as one to an unknown path: one ErrNotPartOfSpec entry (none for a
\* status 500 when internal server errors are not checked), no flag changed
\* and no coordinate added.
C5_UnregisteredMethodOrStatusIsNotPartOfSpec ==
    \A r \in Requests :
        (~NoTemplateMatches(doc, conf, r.path) /\ NotRegistered(endpoints, r))
            => \A ex \in ExchangesOf(r) :
                    /\ NotPartOfSpecEffect(ex)
                    /\ Coordinates(RecordEndpoints(endpoints, ex)) = Coordinates(endpoints)

\* GET /t/7 has been recorded against a document that has only DELETE
\* /t/{i}: the template matches, the method is not registered.
C5_Witness ==
    /\ lastOp = "Record"
    /\ doc = DocDelete
    /\ Len(errors) = 1
    /\ errors[1].sentinel = ErrNotPartOfSpec
    /\ errors[1].err.msg = <<"GET", SlashT7, C200>>
    /\ ~endpoints[1].checked

\* C6: CurrentError returns nil exactly when CurrentErrors returns the empty
\* list, that is, exactly when the ledger is empty and full coverage is
\* disabled or every coordinate is checked.
C6_CurrentErrorNilIffNoCurrentErrors ==
    lastOp = "CurrentError" =>
        /\ (ret = Nil) <=> (CurrentErrors(conf, endpoints, errors) = <<>>)
        /\ (ret = Nil) <=>
                (errors = <<>> /\ (conf.disableFullCoverage \/ UncheckedIndices(endpoints) = {}))

\* CurrentError has returned nil with full coverage enforced: the ledger is
\* empty and every coordinate of the document has been checked.
C6_Witness ==
    /\ lastOp = "CurrentError"
    /\ ret = Nil
    /\ ~conf.disableFullCoverage
    /\ Len(endpoints) = 2
    /\ UncheckedIndices(endpoints) = {}

\* C7: Verify calls the failure callback once, with the joined current
\* errors, when CurrentError is not nil, and not at all when it is nil; it
\* leaves the ledger and the flags as they were, so a second Verify reports
\* the same.
C7_VerifyReportsOnceAndChangesNothing ==
    [][lastOp' = "Verify" =>
        /\ UNCHANGED <<log, doc, conf, endpoints, errors, reqCounter>>
        /\ IF errors = <<>> /\ (conf.disableFullCoverage \/ UncheckedIndices(endpoints) = {})
           THEN ret'.list = <<>>
           ELSE /\ Len(ret'.list) = 1
                /\ ret'.list[1].kind = "joinError"
                /\ Len(ret'.list[1].errs)
                      = Len(errors) + (IF conf.disableFullCoverage THEN 0
                                       ELSE Cardinality(UncheckedIndices(endpoints)))
                /\ SubSeq(ret'.list[1].errs, 1, Len(errors)) = errors
        /\ VerifyReports(conf', endpoints', errors') = ret'.list]_vars

\* Verify has reported one failure that joins a ledger of two entries and an
\* unchecked coordinate.
C7_Witness ==
    /\ lastOp = "Verify"
    /\ Len(ret.list) = 1
    /\ Len(errors) = 2
    /\ Len(ret.list[1].errs) = 3

\* What C8 says of Verify with default options: it reports a failure exactly
\* when a coordinate is unchecked or the ledger holds an entry.
DefaultVerifyVerdict ==
    (lastOp = "Verify" /\ conf = DefaultConfig) =>
        ((ret.list # <<>>) <=> (UncheckedIndices(endpoints) # {} \/ errors # <<>>))

\* What C8 says of Record with default options: it never removes an entry
\* of the ledger, and a conforming exchange a coordinate takes adds none.
DefaultRecordKeepsLedger(ex) ==
    LET errs1 == RecordErrors(conf, endpoints, errors, ex)
    IN  /\ Len(errs1) >= Len(errors)
        /\ SubSeq(errs1, 1, Len(errors)) = errors
        /\ (Conforming(ex) /\ Taken(endpoints, ex)) => errs1 = errors

C10_TableKeysAreFixed ==
    TableKeys(paths) = TableKeys(newEndpoints(doc, conf.checkInternalServerErrors))

\* The keys load inserted: those of the table newEndpoints builds.
LoadedKeys == TableKeys(newEndpoints(doc, conf.checkInternalServerErrors))

\* C11: MarkChecked returns true exactly when load inserted the coordinate,
\* and then its flag is true; for a coordinate load did not insert (unknown
\* path, unknown method, or unknown code of a known path and method) it
\* returns false and the table holds no such key.
C11_MarkCheckedTrueIffInserted ==
    lastOp = "MarkChecked" =>
        /\ ret.val <=> (ret.args \in LoadedKeys)
        /\ ret.val => IsChecked(paths, ret.args.path, ret.args.method, ret.args.code)
        /\ ~ret.val => ret.args \notin TableKeys(paths)

\* C12: IsChecked returns true only for a coordinate load inserted, whatever
\* MarkChecked calls came before.
C12_IsCheckedOnlyForInserted ==
    (lastOp = "IsChecked" /\ ret.val) => ret.args \in LoadedKeys

\* The endpoints and the ledger that Record calls with the given exchanges
\* leave when they run one after another from eps and errs.
RECURSIVE SerialEndpoints(_, _)
SerialEndpoints(eps, calls) ==
    IF calls = <<>> THEN eps
    ELSE SerialEndpoints(RecordEndpoints(eps, calls[1]), Tail(calls))

RECURSIVE SerialErrors(_, _, _)
SerialErrors(eps, errs, calls) ==
    IF calls = <<>> THEN errs
    ELSE SerialErrors(RecordEndpoints(eps, calls[1]),
                      RecordErrors(conf, eps, errs, calls[1]), Tail(calls))

\* The endpoints as construction left them.
Constructed(eps) == [i \in 1..Len(eps) |-> [eps[i] EXCEPT !.checked = FALSE]]

\* C13: whenever no Record call is inside its locked section, the flags and
\* the ledger are those the Record calls that have taken the lock leave when
\* run one after another in that order, so no mark and no entry is lost and
\* the entries of one call are contiguous; and what CurrentErrors returned is
\* what it returns after such a sequential run of the calls that had taken
\* the lock before it, never the state in the middle of a call.
C13_ConcurrentRecordsAreSerial ==
    /\ mu = 0 =>
            /\ endpoints = SerialEndpoints(Constructed(endpoints), serial)
            /\ errors = SerialErrors(Constructed(endpoints), <<>>, serial)
    /\ lastOp = "CurrentErrors" =>
            LET done == SubSeq(serial, 1, ret.after)
            IN  ret.list = CurrentErrors(conf,
                                         SerialEndpoints(Constructed(endpoints), done),
                                         SerialErrors(Constructed(endpoints), <<>>, done))

\* Two concurrent Record calls of rejected exchanges have both returned: the
\* ledger holds the two entries of each.
C13_Witness ==
    /\ \A g \in 1..Goroutines : At(g, "done")
    /\ Len(serial) >= 2
    /\ Len(errors) >= 4
    /\ endpoints[1].checked /\ endpoints[2].checked

\* C14: Record returns normally, without raising, for every exchange:
\* matched or unmatched, accepted or rejected, with or without a body.
C14_RecordNeverRaises ==
    lastOp = "Record" => ret.err = Nil

\* C15: after Record returns, the response body the caller reads is the
\* whole body the response arrived with, for every outcome of Record and
\* however much of the body ValidateResponse read.
C15_BodyIsRestored ==
    lastOp = "Record" => ret.body = ret.original

\* The entries a Record of ex appends, and those of them of a sentinel.
Appended(ex) ==
    SubSeq(RecordErrors(conf, endpoints, errors, ex),
           Len(errors) + 1, Len(RecordErrors(conf, endpoints, errors, ex)))
OfSentinel(errs, sentinel) == SelectSeq(errs, LAMBDA e : e.sentinel = sentinel)

\* C16: for an exchange a coordinate takes, Record appends an
\* ErrRequestInvalid entry exactly when requests are validated and the
\* validator rejects the request; without the option the ledger never holds
\* an ErrRequestInvalid entry.
C16_RequestInvalidIffCheckedAndRejected ==
    /\ \A r \in Requests : \A ex \in ExchangesOf(r) :
            Taken(endpoints, ex) =>
                IF conf.checkRequest /\ ex.requestErr # Nil
                THEN /\ Len(OfSentinel(Appended(ex), ErrRequestInvalid)) = 1
                     /\ Appended(ex)[1].sentinel = ErrRequestInvalid
                     /\ Appended(ex)[1].err.wraps = ex.requestErr
                ELSE OfSentinel(Appended(ex), ErrRequestInvalid) = <<>>
    /\ ~conf.checkRequest => OfSentinel(errors, ErrRequestInvalid) = <<>>

\* With request validation, a Record of a rejected request with an accepted
\* response has checked its coordinate and left one ErrRequestInvalid entry.
C16_Witness ==
    /\ lastOp = "Record"
    /\ conf.checkRequest
    /\ doc = DocDelete
    /\ endpoints[1].checked
    /\ Len(errors) = 1
    /\ errors[1].sentinel = ErrRequestInvalid
    /\ errors[1].err.wraps = RequestError

NotCheckedFor(e) ==
    joinError(ErrNotChecked, Errorf(<<e.method, e.path, e.response>>, Nil))

\* The endpoint is the coordinate of the documented triple.
IsCoordinateOf(e, t) ==
    /\ e.method = t.method
    /\ e.path = conf.basePath \o t.path
    /\ e.response = t.code

\* C18: without checkInternalServerErrors no coordinate has the code "500",
\* in the slice or in the table, and a verifier of a document whose only
\* response is 500 has no coordinate and no current error while nothing is
\* in the ledger. With it every documented 500 of a supported method is one
\* coordinate; while unchecked it gives its ErrNotChecked entry (full
\* coverage on), a Record checks it exactly when the exchange has its method,
\* status 500 and a path of its template, and once checked it gives none.
C18_InternalServerErrorPolicy ==
    /\ ~conf.checkInternalServerErrors =>
            /\ \A i \in 1..Len(endpoints) : endpoints[i].response # C500
            /\ \A k \in TableKeys(paths) : k.code # C500
    /\ (~conf.checkInternalServerErrors /\ doc = DocOnly500) =>
            /\ endpoints = <<>>
            /\ errors = <<>> => CurrentError(conf, endpoints, errors) = Nil
    /\ conf.checkInternalServerErrors =>
            \A t \in doc : (t.code = C500 /\ t.method \in Range(supportedMethods)) =>
                /\ Triple(t.path, ToUpper(t.method), C500) \in TableKeys(paths)
                /\ \E i \in 1..Len(endpoints) :
                    /\ IsCoordinateOf(endpoints[i], t)
                    /\ \A j \in 1..Len(endpoints) : IsCoordinateOf(endpoints[j], t) => j = i
                    /\ (~endpoints[i].checked /\ ~conf.disableFullCoverage) =>
                            /\ NotCheckedFor(endpoints[i])
                                    \in Range(CurrentErrors(conf, endpoints, errors))
                            /\ CurrentError(conf, endpoints, errors) # Nil
                    /\ endpoints[i].checked =>
                            NotCheckedFor(endpoints[i])
                                \notin Range(CurrentErrors(conf, endpoints, errors))
                    /\ \A r \in Requests : \A ex \in ExchangesOf(r) :
                            IF /\ ex.method = t.method
                               /\ ex.status = StatusInternalServerError
                               /\ MatchString(endpoints[i].uriRe, ex.path)
                            THEN RecordEndpoints(endpoints, ex)[i].checked
                            ELSE RecordEndpoints(endpoints, ex)[i].checked
                                    = endpoints[i].checked

\* With internal server errors checked and only a 500 documented, CurrentError
\* has returned nil after the 500 exchange was recorded.
C18_Witness ==
    /\ lastOp = "CurrentError"
    /\ ret = Nil
    /\ doc = DocOnly500
    /\ conf.checkInternalServerErrors
    /\ ~conf.disableFullCoverage
    /\ Len(endpoints) = 1
    /\ endpoints[1].checked

\* s is an instance of the template: its literals character by character,
\* and for every placeholder one or more characters other than "/".
RECURSIVE InstanceOf(_, _)
InstanceOf(tokens, s) ==
    IF tokens = <<>> THEN s = <<>>
    ELSE IF tokens[1].kind = "lit"
    THEN /\ s # <<>>
         /\ tokens[1].val[1] = s[1]
         /\ InstanceOf(Tail(tokens), Tail(s))
    ELSE \E k \in 1..Len(s) :
            /\ \A j \in 1..k : s[j] # "/"
            /\ InstanceOf(Tail(tokens), SubSeq(s, k + 1, Len(s)))

\* s is the base path followed by an instance of the template.
BaseThenInstance(base, template, s) ==
    /\ Len(s) >= Len(base)
    /\ SubSeq(s, 1, Len(base)) = base
    /\ InstanceOf(ReplacePlaceholders(template), SubSeq(s, Len(base) + 1, Len(s)))

\* C19: with a base path configured, a coordinate takes an exchange exactly
\* when the exchange has its method and status and its path is the base path
\* followed by an instance of the coordinate's template; a conforming exchange
\* of such a path leaves no current error, and the same path without the base
\* path is recorded as ErrNotPartOfSpec.
C19_MatchedIffBaseThenInstance ==
    \A ex \in BaseExchanges :
        /\ Taken(endpoints, ex) <=>
                \E t \in doc : /\ t.method = ex.method
                               /\ t.code = Itoa(ex.status)
                               /\ BaseThenInstance(conf.basePath, t.path, ex.path)
        /\ (lastOp = "CurrentError" /\ ret = Nil) =>
                \A k \in 1..Len(endpoints) : endpoints[k].checked

\* The sentinels of the error and of the errors of its cause chain, and the
\* innermost cause of the chain.
RECURSIVE Classifications(_)
Classifications(e) ==
    CASE e.kind = "VerificationError" -> {e.sentinel} \cup Classifications(e.err)
      [] e.kind = "Errorf" -> IF e.wraps = Nil THEN {} ELSE Classifications(e.wraps)
      [] OTHER -> {}

RECURSIVE InnermostCause(_)
InnermostCause(e) ==
    CASE e.kind = "VerificationError" -> InnermostCause(e.err)
      [] e.kind = "Errorf" -> IF e.wraps = Nil THEN e ELSE InnermostCause(e.wraps)
      [] OTHER -> e

\* C20: for an error built by joinError to any depth, errors.Is is true for
\* a sentinel exactly when it is the sentinel of the error or of an error
\* nested in its cause chain, true for the innermost cause, and false for
\* any other cause.
C20_IsSeesThroughEveryDepth ==
    lastOp = "Is" =>
        /\ ret.target.kind = "SentinelError" =>
                (ret.is <=> ret.target.msg \in Classifications(ret.err))
        /\ ret.target.kind = "errorString" =>
                (ret.is <=> ret.target = InnermostCause(ret.err))

\* errors.Is has found ErrNotPartOfSpec in
\* joinError(ErrRequestInvalid, joinError(ErrNotPartOfSpec, cause)).
C20_Witness ==
    /\ lastOp = "Is"
    /\ ret.err = joinError(ErrRequestInvalid, joinError(ErrNotPartOfSpec, New(1)))
    /\ ret.target = SentinelValue(ErrNotPartOfSpec)
    /\ ret.is

\* C21: the error CurrentError returns is a sentinel exactly when some
\* element of CurrentErrors in the same state is, and it is the innermost
\* cause of every element: joining loses no sentinel and adds none.
C21_JoinedErrorKeepsMembership ==
    LET list == CurrentErrors(conf, endpoints, errors)
        joined == CurrentError(conf, endpoints, errors)
    IN  /\ \A x \in Sentinels :
                Is(joined, SentinelValue(x))
                    <=> \E k \in 1..Len(list) : Is(list[k], SentinelValue(x))
        /\ \A k \in 1..Len(list) : Is(joined, InnermostCause(list[k]))

\* CurrentError has returned an error that is ErrRequestInvalid, its
\* validator's error and ErrNotChecked, and is not ErrNotPartOfSpec.
C21_Witness ==
    /\ lastOp = "CurrentError"
    /\ ret # Nil
    /\ Is(ret, SentinelValue(ErrRequestInvalid))
    /\ Is(ret, RequestError)
    /\ Is(ret, SentinelValue(ErrNotChecked))
    /\ ~Is(ret, SentinelValue(ErrNotPartOfSpec))

\* C22: NewVerifier returns a nil Verifier and an error when the bytes
\* cannot be parsed, the document is not valid or the pattern of one of its
\* paths does not compile, and otherwise a nil error and the Verifier with
\* the coordinates of the whole document; never an error with a Verifier or
\* a Verifier with only some of the paths loaded.
C22_VerifierOrError ==
    lastOp = "NewVerifierCall" =>
        LET b == ret.specBytes
            fails == \/ b.kind # "valid"
                     \/ \E p \in DocPaths(b.doc) : CompileError(ret.conf.basePath, p)
        IN  /\ (ret.err # Nil) <=> fails
            /\ (ret.v = Nil) <=> (ret.err # Nil)
            /\ ret.v # Nil =>
                    /\ ret.v.errors = <<>>
                    /\ ret.v.conf = ret.conf
                    /\ {<<e[1], e[2], e[3]>> : e \in Coordinates(ret.v.endpoints)}
                            = {<<t.method, ret.conf.basePath \o t.path, t.code>> :
                                    t \in SupportedTriples(b.doc, ret.conf)}

\* NewVerifier has returned nil and an error for a document one of whose two
\* paths has a pattern that does not compile.
C22_Witness ==
    /\ lastOp = "NewVerifierCall"
    /\ ret.specBytes.doc = DocPartial
    /\ ret.v = Nil
    /\ ret.err # Nil
    /\ endpoints = <<>>

\* C23: a method of the wrapping client whose underlying call returned no
\* error has called Record once, with the response of that call; one whose
\* underlying call returned an error has not called it; both return the
\* response and the error of the underlying call. Every client derived with
\* WithClient records into the Verifier of the client it came from: the flags
\* and the ledger after the call are those Record leaves on the state before.
C23_ClientRecordsOncePerResponse ==
    (lastOp = "ClientCall" /\ ret.called) =>
        /\ ret.recorded = IF ret.underlying.err = Nil THEN <<ret.underlying.resp>> ELSE <<>>
        /\ ret.result = ret.underlying
        /\ ret.client.Verifier = TheVerifier
        /\ IF ret.underlying.err = Nil
           THEN /\ endpoints = RecordEndpoints(ret.eps0, ret.underlying.resp)
                /\ errors = RecordErrors(conf, ret.eps0, ret.errs0, ret.underlying.resp)
           ELSE endpoints = ret.eps0 /\ errors = ret.errs0

\* A Delete through a client derived twice has checked the coordinate of the
\* verifier the first client was built with.
C23_Witness ==
    /\ lastOp = "ClientCall"
    /\ ret.called
    /\ ret.fn = "Delete"
    /\ ret.client.c = "third"
    /\ ret.underlying.err = Nil
    /\ doc = DocDelete
    /\ ~ret.eps0[1].checked
    /\ endpoints[1].checked

\* The sentinels of the entries, in order.
SentinelsOf(errs) == [k \in 1..Len(errs) |-> errs[k].sentinel]

\* A Record of the exchange returns: some coordinate takes it and
\* ValidateResponse does not raise.
Returns(ex) == Taken(endpoints, ex) /\ ~Panics(endpoints, ex)

Logging(g) == goroutines[g].pc \in {"dumpRequest", "dumpResponse"}

\* The goroutine is inside Record after v.mu.Lock() and before the unlock.
Locked(g) == goroutines[g].pc \in {"loop", "validated", "marked", "unlock"}

\* C26 as stated: a goroutine inside any step of Record, from the sequence
\* number and the dumps to the append, holds the lock, so no two goroutines
\* are inside Record together.
C26_EveryStepUnderLock ==
    /\ \A g \in 1..LogGoroutines : (Logging(g) \/ Locked(g)) => mu = g
    /\ \A g, h \in 1..LogGoroutines :
            (g # h /\ (Logging(g) \/ Locked(g))) => ~(Logging(h) \/ Locked(h))

\* C26, amended: the lock is held from the match to the return (matching,
\* validating, marking, appending), so no two goroutines are inside these
\* steps together; the body reset, the sequence number and the two dumps run
\* before the lock is taken, holding no lock.
C26_MatchToAppendUnderLock ==
    /\ \A g \in 1..LogGoroutines : Locked(g) <=> mu = g
    /\ \A g, h \in 1..LogGoroutines : (g # h /\ Locked(g)) => ~Locked(h)
    /\ \A g \in 1..LogGoroutines : Logging(g) => mu # g

\* One goroutine is between its two dumps while another is inside the
\* locked part of Record.
C26_Witness ==
    \E g, h \in 1..LogGoroutines :
        /\ goroutines[g].pc = "dumpResponse"
        /\ goroutines[h].pc = "validated"
        /\ mu = h

\* The goroutines that have taken their sequence number, those that have
\* made both dumps, and the log lines that carry a number.
Counted == {g \in 1..LogGoroutines : goroutines[g].pc # "idle"}
Dumped == {g \in Counted : ~Logging(g)}
LinesOf(count) == SelectSeq(log, LAMBDA l : l.count = count)

\* The sequence numbers are handed out one by one from 1, no two goroutines
\* have the same, and every line of the log carries the number of a call.
UniqueCounts ==
    /\ \A g, h \in Counted : g # h => goroutines[g].count # goroutines[h].count
    /\ {goroutines[g].count : g \in Counted} = 1..reqCounter
    /\ \A k \in 1..Len(log) : log[k].count \in 1..reqCounter

\* C27 as stated: under every interleaving each exchange has a sequence
\* number of its own, the numbers are 1, 2, ... without gaps, and each
\* exchange that has made its dumps has exactly two lines in the log, its
\* REQUEST line and then its RESPONSE line, both with its number.
C27_TwoLinesPerExchange ==
    /\ UniqueCounts
    /\ \A g \in Dumped :
            LinesOf(goroutines[g].count)
                = << [line |-> "REQUEST", count |-> goroutines[g].count],
                     [line |-> "RESPONSE", count |-> goroutines[g].count] >>

\* C27, amended: the same for the numbers; an exchange has at most two lines
\* in the log, the REQUEST line when DumpRequestOut returned no error and
\* then the RESPONSE line when DumpResponse returned none, both with its
\* number; a failed dump leaves no line and still uses up the number.
C27_LinePerSuccessfulDump ==
    /\ UniqueCounts
    /\ \A g \in Dumped :
            LinesOf(goroutines[g].count)
                = (IF goroutines[g].ex.dumps[1]
                   THEN <<[line |-> "REQUEST", count |-> goroutines[g].count]>> ELSE <<>>)
                  \o (IF goroutines[g].ex.dumps[2]
                      THEN <<[line |-> "RESPONSE", count |-> goroutines[g].count]>> ELSE <<>>)

\* Two calls have logged between each other: the lines of the second number
\* lie between the REQUEST and the RESPONSE line of the first.
C27_Witness ==
    /\ Dumped = 1..LogGoroutines
    /\ Len(log) >= 4
    /\ log[1] = [line |-> "REQUEST", count |-> 1]
    /\ log[2] = [line |-> "REQUEST", count |-> 2]
    /\ log[3] = [line |-> "RESPONSE", count |-> 2]
    /\ log[4] = [line |-> "RESPONSE", count |-> 1]

\* The options with and without a request logger, all else equal.
Logged(c) == [c EXCEPT !.requestLogger = TRUE]
Unlogged(c) == [c EXCEPT !.requestLogger = FALSE]

RecordSentinels == {ErrNotPartOfSpec, ErrRequestInvalid, ErrResponseInvalid}

\* The ledger after a step holds the ledger before it as its first entries.
LedgerExtended ==
    /\ Len(errors') >= Len(errors)
    /\ SubSeq(errors', 1, Len(errors)) = errors

\* C29: between Resets the ledger only grows at its end. A Record keeps the
\* entries the ledger had, in their places, and adds at most two entries,
\* each of ErrNotPartOfSpec, ErrRequestInvalid or ErrResponseInvalid and
\* none of ErrNotChecked; CurrentErrors, CurrentError and Verify do not
\* change the ledger.
C29_LedgerAppendOnly ==
    [][ /\ lastOp' = "Record" =>
            /\ LedgerExtended
            /\ Len(errors') <= Len(errors) + 2
            /\ \A k \in (Len(errors) + 1)..Len(errors') :
                    errors'[k].sentinel \in RecordSentinels
        /\ lastOp' \in {"CurrentErrors", "CurrentError", "Verify"} =>
            errors' = errors ]_vars

\* A Record has added an ErrResponseInvalid entry behind the
\* ErrNotPartOfSpec entry of an earlier Record.
C29_Witness ==
    /\ lastOp = "Record"
    /\ SentinelsOf(errors) = <<ErrNotPartOfSpec, ErrResponseInvalid>>
    /\ \E i \in 1..Len(endpoints) : ~endpoints[i].checked

\* The template of the one endpoint of the verifier.
TheTemplate == endpoints[1].route[1]

\* The base path has none of the pattern's metacharacters.
PlainBasePath == \A i \in 1..Len(conf.basePath) : conf.basePath[i] # "."

\* C30: the matcher of a template accepts a path exactly when the whole path
\* is the base path followed by the template with each placeholder replaced
\* by one or more characters other than "/".
C30_MatchesIffBaseThenInstance ==
    lastOp = "MatchString" =>
        (ret.matched <=> BaseThenInstance(conf.basePath, TheTemplate, ret.path))

\* The same for a base path without metacharacters (and for none).
MatchesIffBaseThenInstanceOfPlainBase ==
    (lastOp = "MatchString" /\ PlainBasePath) =>
        (ret.matched <=> BaseThenInstance(conf.basePath, TheTemplate, ret.path))

\* Under a plain base path: a path with a two-character value matches, and
\* paths with a trailing slash, an empty value, an extra leading segment and
\* an extra trailing segment do not.
MatchAnchoredCases ==
    (lastOp = "MatchString" /\ conf.basePath = <<"/", "b">> /\ TheTemplate = TplThingId) =>
        /\ ret.path = <<"/", "b", "/", "t", "/", "7", "7">> => ret.matched
        /\ ret.path \in { <<"/", "b", "/", "t", "/", "7", "/">>,
                           <<"/", "b", "/", "t", "/">>,
                           <<"/", "b", "/", "x", "/", "t", "/", "7">>,
                           <<"/", "b", "/", "t", "/", "7", "/", "x">>,
                           <<"/", "t", "/", "7">> } => ~ret.matched

MatchAnchoredWitness ==
    /\ lastOp = "MatchString"
    /\ conf.basePath = <<"/", "b">>
    /\ TheTemplate = TplThingId
    /\ ret.path = <<"/", "b", "/", "x", "/", "t", "/", "7">>
    /\ ~ret.matched

\* The segments of a path: the texts between its "/" characters.
RECURSIVE SplitSegments(_)
SplitSegments(s) ==
    LET slash == IndexFrom(s, "/", 1)
    IN  IF slash = 0 THEN <<s>>
        ELSE <<SubSeq(s, 1, slash - 1)>> \o SplitSegments(SubSeq(s, slash + 1, Len(s)))

\* The segment is a placeholder {name}.
IsPlaceholder(seg) == Len(seg) >= 2 /\ seg[1] = "{" /\ seg[Len(seg)] = "}"
PlaceholderName(seg) == SubSeq(seg, 2, Len(seg) - 1)

\* The mapping the claim describes: for every placeholder of the template
\* its name, with the segment of the path below the base path that stands
\* in the placeholder's place.
PlaceholderParams(base, template, s) ==
    LET tsegs == SplitSegments(template)
        psegs == SplitSegments(SubSeq(s, Len(base) + 1, Len(s)))
        at == {k \in 1..Len(tsegs) : IsPlaceholder(tsegs[k])}
    IN  [n \in {PlaceholderName(tsegs[k]) : k \in at} |->
            psegs[CHOOSE k \in at : PlaceholderName(tsegs[k]) = n]]

\* C31: on a match, the path parameters Record builds are the placeholders of
\* the template, each name with the segment of the request path in its
\* place, and nothing else.
C31_ParamsAreThePlaceholders ==
    (lastOp = "PathParams" /\ ret.matched /\ PlainBasePath) =>
        ret.params = PlaceholderParams(conf.basePath, TheTemplate, ret.path)

\* The named entries of the path parameters are those of the placeholders.
ParamsHoldThePlaceholders ==
    (lastOp = "PathParams" /\ ret.matched /\ PlainBasePath) =>
        \A n \in DOMAIN PlaceholderParams(conf.basePath, TheTemplate, ret.path) :
            /\ n \in DOMAIN ret.params
            /\ ret.params[n] = PlaceholderParams(conf.basePath, TheTemplate, ret.path)[n]

\* The endpoints whose flag a Record of the exchange changes.
FlagsChanged(ex) ==
    {i \in 1..Len(endpoints) : RecordEndpoints(endpoints, ex)[i] # endpoints[i]}

\* The endpoints whose method, code and matcher take the exchange.
Takers(ex) == {i \in 1..Len(endpoints) : EndpointMatches(endpoints[i], ex)}

\* C32: a Record resolves its exchange to at most one coordinate. It changes
\* the flag of at most one endpoint, the first that takes the exchange, and
\* appends at most one ErrRequestInvalid and one ErrResponseInvalid entry,
\* also when the matchers of two templates take the path.
C32_AtMostOneCoordinate ==
    \A ex \in OverlapExchanges :
        /\ Cardinality(FlagsChanged(ex)) <= 1
        /\ \A i \in FlagsChanged(ex) : \A j \in Takers(ex) : i <= j
        /\ Len(RecordEndpoints(endpoints, ex)) = Len(endpoints)
        /\ Len(OfSentinel(Appended(ex), ErrRequestInvalid)) <= 1
        /\ Len(OfSentinel(Appended(ex), ErrResponseInvalid)) <= 1
        /\ Takers(ex) # {} => OfSentinel(Appended(ex), ErrNotPartOfSpec) = <<>>

\* With /t/x loaded before /t/{i}, a Record of GET /t/x has checked /t/x and
\* left /t/{i}, whose matcher takes /t/x too, unchecked.
C32_Witness ==
    /\ lastOp = "Record"
    /\ doc = DocOverlap
    /\ Len(endpoints) = 2
    /\ endpoints[1].route[1] = TplThingX
    /\ endpoints[1].checked
    /\ ~endpoints[2].checked
    /\ MatchString(endpoints[2].uriRe, SlashTX)
    /\ endpoints[2].method = endpoints[1].method
    /\ endpoints[2].response = endpoints[1].response

\* C33: only operations of the supported methods become coordinates. Neither
\* the endpoints of the verifier nor the keys of the coverage table hold a
\* method outside supportedMethods, and Unchecked reports none.
C33_OnlySupportedMethodsAreCoordinates ==
    /\ \A i \in 1..Len(endpoints) : endpoints[i].method \in Range(supportedMethods)
    /\ \A t \in TableKeys(paths) : t.method \in Range(supportedMethods)
    /\ lastOp = "Unchecked" =>
            \A k \in 1..Len(ret.list) : ret.list[k].method \in Range(supportedMethods)

\* The same for the endpoints of the verifier alone.
EndpointsOfSupportedMethods ==
    \A i \in 1..Len(endpoints) : endpoints[i].method \in Range(supportedMethods)

\* The path between its first and its last character other than "/".
Stripped(p) ==
    LET others == {i \in 1..Len(p) : p[i] # "/"}
        first == CHOOSE i \in others : \A j \in others : i <= j
        last == CHOOSE i \in others : \A j \in others : j <= i
    IN  IF others = {} THEN <<>> ELSE SubSeq(p, first, last)

\* C34: WithBasePath(p) stores "/" followed by p without its leading and
\* trailing "/" characters. The stored path starts with exactly one "/",
\* ends with "/" only when it is "/" itself, and the option applied to a
\* stored path stores the same path.
C34_BasePathNormalised ==
    lastOp = "WithBasePath" =>
        /\ conf.basePath = <<"/">> \o Stripped(ret.path)
        /\ conf.basePath[1] = "/"
        /\ Len(conf.basePath) > 1 => conf.basePath[2] # "/"
        /\ conf.basePath[Len(conf.basePath)] = "/" => conf.basePath = <<"/">>
        /\ (ret.before # <<>> /\ ret.path = ret.before) => conf.basePath = ret.before
        /\ WithBasePath(conf.basePath) = conf.basePath

\* The option applied to the path it stored for "/b/" has stored /b again.
C34_Witness ==
    /\ lastOp = "WithBasePath"
    /\ ret.arg = <<"/", "b", "/">>
    /\ ret.path = <<"/", "b">>
    /\ ret.before = <<"/", "b">>
    /\ conf.basePath = <<"/", "b">>

\* The step keeps the endpoints and sets no flag of them back.
EndpointFlagsKept ==
    /\ Len(endpoints') = Len(endpoints)
    /\ \A i \in 1..Len(endpoints) : endpoints[i].checked => endpoints'[i].checked

\* The step sets no flag of the coverage table back.
TableFlagsKept ==
    \A t \in TableKeys(paths) :
        IsChecked(paths, t.path, t.method, t.code) =>
            IsChecked(paths', t.path, t.method, t.code)

\* C35: between Resets a checked flag stays checked. No Record,
\* CurrentErrors, CurrentError, Verify or MarkChecked sets a flag back, and
\* the number of ErrNotChecked entries CurrentErrors gives, and of
\* coordinates Unchecked gives, does not grow.
C35_CheckedFlagsMonotonic ==
    [][lastOp' # "Reset" =>
        /\ EndpointFlagsKept
        /\ TableFlagsKept
        /\ Len(NotCheckedErrors(endpoints')) <= Len(NotCheckedErrors(endpoints))
        /\ Cardinality(Unchecked(paths')) <= Cardinality(Unchecked(paths))]_vars

\* CurrentErrors has run after a second Record: the first left one endpoint
\* checked and an entry in the ledger, the second checked the other endpoint.
C35_Witness ==
    /\ lastOp = "CurrentErrors"
    /\ doc = DocMethods
    /\ Len(endpoints) = 2
    /\ endpoints[1].checked
    /\ endpoints[2].checked
    /\ Len(errors) = 1
    /\ OfSentinel(ret.list, ErrNotChecked) = <<>>
    /\ \E t \in TableKeys(paths) : IsChecked(paths, t.path, t.method, t.code)

\* C36: the list CurrentErrors returned is a snapshot of its own. A later
\* Record, and a later CurrentErrors of which the caller keeps an earlier
\* list, leave the elements of the list the caller holds as they were, and
\* an assignment of the caller to an element of its list leaves the ledger
\* as it was.
C36_ReturnedListIsIndependent ==
    [][ /\ lastOp' = "Record" => ret'.list = ret.list
        /\ (lastOp' = "CurrentErrors" /\ ret'.shared = ret.shared
                /\ Len(ret'.list) = Len(ret.list)) =>
                    (ret'.list = ret.list \/ ret'.list = CurrentErrors(conf, endpoints, errors))
        /\ lastOp' = "CallerAssign" => errors' = errors ]_vars

\* The same for a list that does not share the array of the ledger.
UnsharedListIsIndependent ==
    [][ ~ret.shared =>
            /\ lastOp' = "Record" => ret'.list = ret.list
            /\ lastOp' = "CallerAssign" => errors' = errors ]_vars

\* The goroutine is between a v.mu.Lock() and its deferred unlock.
Holding(g) == goroutines[g].pc \in {"loop", "validated", "marked", "unlock", "reading"}

\* The goroutine has begun a call that has not returned.
Started(g) == goroutines[g].pc \notin {"idle", "done"}

\* C37: the lock is held by a goroutine exactly while it is between Lock and
\* the deferred unlock of Record or CurrentErrors, so it is released on every
\* way out and never taken by a goroutine that holds it; and every call a
\* goroutine has begun returns.
C37_LockReleasedAndCallsReturn ==
    /\ [](\A g \in 1..LogGoroutines : Holding(g) <=> mu = g)
    /\ \A g \in 1..LogGoroutines : Started(g) ~> At(g, "done")

\* A Verify has returned, through CurrentError and CurrentErrors, after a
\* Record that ignored an unsupported format, and the lock is free.
C37_Witness ==
    /\ mu = 0
    /\ \A g \in 1..LogGoroutines : At(g, "done")
    /\ \E g \in 1..LogGoroutines :
          "call" \in DOMAIN goroutines[g] /\ goroutines[g].call = "Verify"
    /\ lastOp = "CurrentErrors"
    /\ ret.after = 1
    /\ Len(serial) = 1
    /\ serial[1].responseErr = ParseError(KindUnsupportedFormat)
    /\ errors = <<>>

\* The document has the exchange's method and status for a template the
\* exchange's path is an instance of.
Documented(ex) ==
    \E t \in doc : /\ t.method = ex.method
                   /\ t.code = Itoa(ex.status)
                   /\ InstanceOf(ReplacePlaceholders(t.path), ex.path)

\* Record has matched the exchange: a coordinate of its method and status is
\* checked afterwards and no ErrNotPartOfSpec was added for it.
MatchedAndChecked(ex) ==
    /\ \E k \in 1..Len(endpoints') :
            /\ endpoints'[k].checked
            /\ endpoints'[k].method = ex.method
            /\ endpoints'[k].response = Itoa(ex.status)
    /\ \A i \in 1..Len(errors') :
            i > Len(errors) => errors'[i].sentinel # ErrNotPartOfSpec

\* C38: with the base path option given "" or "/", as without the option, a
\* request whose path is an instance of a documented template is matched to
\* it and its coordinate is marked checked.
C38_RootBasePathIsNoBasePath ==
    [][\A ex \in RootExchanges :
            (Record(ex) /\ Documented(ex)) => MatchedAndChecked(ex)]_vars

\* Without the option the documented request is matched and checked.
DocumentedIsMatchedWithoutBasePath ==
    [][\A ex \in RootExchanges :
            (Record(ex) /\ Documented(ex) /\ conf.basePath = <<>>)
                => MatchedAndChecked(ex)]_vars

\* With the option given "" or "/" the request is matched after one more "/".
RootBasePathTakesDoubleSlash ==
    conf.basePath = <<"/">> =>
        \A ex \in RootExchanges :
            Taken(endpoints, ex) <=> Documented([ex EXCEPT !.path = Tail(ex.path)])

\* The call was a Put or a Delete whose http.NewRequest failed.
BuildFailed == lastOp = "ClientCall" /\ ret.fn \in {"Put", "Delete"} /\ ~ret.called

\* The call returned no response and the error of http.NewRequest, and
\* recorded nothing.
ReturnsConstructionError ==
    /\ ret.result = [resp |-> Nil, err |-> NewRequestError]
    /\ ret.recorded = <<>>
    /\ endpoints = ret.eps0
    /\ errors = ret.errs0

\* C39: when building the request fails, Put and Delete return a nil
\* response and the construction error, without a panic, without Record and
\* without a call of the underlying client.
C39_BuildFailureIsReturned ==
    BuildFailed => (~ret.panic /\ ReturnsConstructionError)

\* Delete does so, and Put neither records nor calls the underlying client.
DeleteReturnsBuildFailure ==
    BuildFailed =>
        /\ ret.recorded = <<>> /\ endpoints = ret.eps0 /\ errors = ret.errs0
        /\ ret.fn = "Delete" => (~ret.panic /\ ReturnsConstructionError)
        /\ ret.fn = "Put" => ret.panic

====
